---- MODULE Spec2Model ----
(***************************************************************************)
(* The concurrent trade lifecycle engine of kotak_algo_cli:                *)
(* TradeExecutor (trade.py), its per-trade OCO monitor tasks, and the      *)
(* TradeManager registry (trade_manager.py), running on one asyncio event  *)
(* loop.                                                                   *)
(*                                                                         *)
(* Scheduling model.  asyncio is cooperative: a task runs from one real    *)
(* suspension to the next without interruption.  The gateway coroutines of *)
(* client.py (place_order, get_order_status, cancel_order) contain no      *)
(* suspending await, so awaiting them never yields to the loop.  The real  *)
(* suspensions are asyncio.sleep, `await task` on an unfinished task, and  *)
(* acquiring a contended asyncio.Lock.  The loop's FIFO of ready handles   *)
(* is `ready`; one event-loop action runs the handle at its head up to the *)
(* task's next suspension.                                                 *)
(***************************************************************************)
EXTENDS Integers, Sequences, FiniteSets, TLC

\* ------------------------------------------------------------------ bounds
\* Number of manager operations the callers start in one behaviour.
MaxOps == 2
\* Number of caller tasks using the TradeManager concurrently.
NumCallers == 2
\* Number of symbols price streams are asked for.
NumSymbols == 2
\* Number of stream operations the callers start in one behaviour.
MaxStreamOps == 3

Callers == 1..NumCallers
\* Last reading of the wall clock, in half seconds.
MaxClock == 3
\* Caller tasks where a status report meets a lock holder and a waiter.
NumReportCallers == 3
ReportCallers == 1..NumReportCallers
\* Trade ids are fresh uuids; at most one per started operation.
TradeIds == 1..MaxOps
\* An id no trade ever received (cancel of an unknown id).
UnknownTradeId == MaxOps + 1
Symbols == 1..NumSymbols

\* --------------------------------------------------------- program constants
\* First value of the mock gateway's order counter.
OrderCounterStart == 1000000

\* get_order_status returned None (no response, or an exception).
NoStatus == "None"
\* Status strings the monitor treats as a completed fill.
TerminalFilled == {"COMPLETE", "FILLED", "EXECUTED"}
\* Status strings the monitor treats as a cancellable, still working order.
StillLive == {"PENDING", "TRIGGER_PENDING", "OPEN"}
\* Representatives of the rest of the open status set.
OtherStatus == {"PARTIAL", "CANCELLED", "REJECTED"}
\* Everything a status call can give the monitor.
StatusReplies == TerminalFilled \cup StillLive \cup OtherStatus \cup {NoStatus}
\* One reply of each kind the monitor tells apart when both calls answer.
SampledReplies == {"COMPLETE", "OPEN"}

\* The three legs of a bracket, in placement order.
Legs == <<"MARKET", "STOP_LOSS", "TARGET">>

VARIABLES
    ready,          \* event loop: FIFO of handles scheduled with call_soon
    sleeping,       \* handles of tasks suspended in asyncio.sleep
    pc,             \* caller task -> where it is suspended
    op,             \* caller task -> the manager operation it runs
    placements,     \* caller task -> place_order calls of its running execute_trade
    returned,       \* <<>> or <<the call that returned in the step just taken>>
    trade_lock,     \* TradeManager.trade_lock: <<>> or <<holder>>
    lock_waiters,   \* TradeManager.trade_lock: FIFO of waiting callers
    active_trades,  \* TradeManager.active_trades (key set)
    active_orders,  \* TradeExecutor.active_orders (key set)
    trade_locks,    \* TradeExecutor.trade_locks (key set)
    trade,          \* trade id -> Trade (active flag, the three leg ids)
    task,           \* trade id -> its monitor asyncio.Task
    order_counter,  \* gateway: ids handed out so far
    polled,         \* <<>> or <<the poll iteration run in the step just taken>>
    cleanup_runs,   \* trade id -> runs of _cleanup_trade_resources
    ops_started,    \* operations started so far
    stream_lock,    \* TradeManager.stream_lock: <<>> or <<holder>>
    stream_waiters, \* TradeManager.stream_lock: FIFO of waiting callers
    ltp_streams,    \* TradeManager.ltp_streams: symbol -> stream task
    stream_task     \* stream tasks created so far, in creation order

vars == <<ready, sleeping, pc, op, placements, returned, trade_lock,
          lock_waiters, active_trades, active_orders, trade_locks, trade, task,
          order_counter, polled, cleanup_runs, ops_started, stream_lock,
          stream_waiters, ltp_streams, stream_task>>

\* The stream registry and its lock.
stream_vars == <<stream_lock, stream_waiters, ltp_streams, stream_task>>

\* ----------------------------------------------------------------- helpers
CallerHandle(c) == [kind |-> "caller", id |-> c]
MonitorHandle(t) == [kind |-> "monitor", id |-> t]
CleanupHandle(t) == [kind |-> "cleanup", id |-> t]

\* The handles of the callers in ws, in order.
RECURSIVE Wakeups(_)
Wakeups(ws) ==
    IF ws = <<>> THEN <<>>
    ELSE <<CallerHandle(Head(ws))>> \o Wakeups(Tail(ws))

Running(h) == ready # <<>> /\ Head(ready) = h

Created == DOMAIN trade

TaskDone(t) == task[t].state \in {"finished", "cancelled"}

\* Optional[order id] of leg `leg` of trade t.
LegOrder(t, leg) ==
    CASE leg = "MARKET" -> trade[t].market_order
      [] leg = "STOP_LOSS" -> trade[t].stop_loss_order
      [] leg = "TARGET" -> trade[t].target_order

\* The sequences that list the elements of S once each: the key order of a
\* dict is its insertion order, which the key set does not record.
Orderings(S) ==
    {f \in [1..Cardinality(S) -> S] :
        \A i \in DOMAIN f, j \in DOMAIN f : f[i] = f[j] => i = j}

\* RegistryWithout of a remove_active_trade that deletes nothing.
RegistryWithoutKeeps(t) == active_trades

\* remove_active_trade: the registry without t.
RegistryWithout(t) == active_trades \ {t}

\* ------------------------------------------------------------ asyncio.Lock
\* CanAcquire of a lock that excludes nobody.
CanAcquireAlways(c) == TRUE

\* Lock.acquire takes the lock without suspending only when it is unlocked
\* and nobody is queued; a queued caller proceeds once release() woke it,
\* and it stays at the head of the queue until it runs.
CanAcquire(c) ==
    /\ trade_lock = <<>>
    /\ IF lock_waiters = <<>> THEN TRUE ELSE Head(lock_waiters) = c

\* The waiter queue once c holds the lock.
WaitersAfterAcquire(c) ==
    IF lock_waiters # <<>> /\ Head(lock_waiters) = c
    THEN Tail(lock_waiters)
    ELSE lock_waiters

\* ReleaseWakeup of a release that wakes no waiter.
ReleaseWakeupNobody(ws) == <<>>

\* Lock.release wakes the first waiter: its step is scheduled with call_soon.
ReleaseWakeup(ws) ==
    IF ws = <<>> THEN <<>> ELSE <<CallerHandle(Head(ws))>>

\* ------------------------------------------------------------- OCO monitor
\* OcoDecision with the cancel_order calls of the two branches swapped: each
\* branch cancels the order that filled.
OcoDecisionCancelsWinner(sl, tgt) ==
    IF sl = NoStatus \/ tgt = NoStatus
    THEN [resolved |-> FALSE, winner |-> "none", cancel |-> "none"]
    ELSE IF sl \in TerminalFilled
    THEN [resolved |-> TRUE, winner |-> "STOP_LOSS",
          cancel |-> IF tgt \in StillLive THEN "STOP_LOSS" ELSE "none"]
    ELSE IF tgt \in TerminalFilled
    THEN [resolved |-> TRUE, winner |-> "TARGET",
          cancel |-> IF sl \in StillLive THEN "TARGET" ELSE "none"]
    ELSE [resolved |-> FALSE, winner |-> "none", cancel |-> "none"]

\* OcoDecision with the two fill tests in the other order: the target leg is
\* looked at first.
OcoDecisionTargetFirst(sl, tgt) ==
    IF sl = NoStatus \/ tgt = NoStatus
    THEN [resolved |-> FALSE, winner |-> "none", cancel |-> "none"]
    ELSE IF tgt \in TerminalFilled
    THEN [resolved |-> TRUE, winner |-> "TARGET",
          cancel |-> IF sl \in StillLive THEN "STOP_LOSS" ELSE "none"]
    ELSE IF sl \in TerminalFilled
    THEN [resolved |-> TRUE, winner |-> "STOP_LOSS",
          cancel |-> IF tgt \in StillLive THEN "TARGET" ELSE "none"]
    ELSE [resolved |-> FALSE, winner |-> "none", cancel |-> "none"]

\* OcoDecision with `and` for `or` in the missing-status test: the iteration
\* is skipped only when both status calls returned nothing.
OcoDecisionFaultNeedsBoth(sl, tgt) ==
    IF sl = NoStatus /\ tgt = NoStatus
    THEN [resolved |-> FALSE, winner |-> "none", cancel |-> "none"]
    ELSE IF sl \in TerminalFilled
    THEN [resolved |-> TRUE, winner |-> "STOP_LOSS",
          cancel |-> IF tgt \in StillLive THEN "TARGET" ELSE "none"]
    ELSE IF tgt \in TerminalFilled
    THEN [resolved |-> TRUE, winner |-> "TARGET",
          cancel |-> IF sl \in StillLive THEN "STOP_LOSS" ELSE "none"]
    ELSE [resolved |-> FALSE, winner |-> "none", cancel |-> "none"]

\* OcoDecision with the loser cancelled unless it filled too: the test for
\* a working order is replaced by the negation of the fill test.
OcoDecisionCancelsUnlessFilled(sl, tgt) ==
    IF sl = NoStatus \/ tgt = NoStatus
    THEN [resolved |-> FALSE, winner |-> "none", cancel |-> "none"]
    ELSE IF sl \in TerminalFilled
    THEN [resolved |-> TRUE, winner |-> "STOP_LOSS",
          cancel |-> IF tgt \notin TerminalFilled THEN "TARGET" ELSE "none"]
    ELSE IF tgt \in TerminalFilled
    THEN [resolved |-> TRUE, winner |-> "TARGET",
          cancel |-> IF sl \notin TerminalFilled THEN "STOP_LOSS" ELSE "none"]
    ELSE [resolved |-> FALSE, winner |-> "none", cancel |-> "none"]

\* OcoDecision with a third branch: two legs that are both cancelled or
\* rejected end the trade.
OcoDecisionDeadLegsResolve(sl, tgt) ==
    IF sl = NoStatus \/ tgt = NoStatus
    THEN [resolved |-> FALSE, winner |-> "none", cancel |-> "none"]
    ELSE IF sl \in TerminalFilled
    THEN [resolved |-> TRUE, winner |-> "STOP_LOSS",
          cancel |-> IF tgt \in StillLive THEN "TARGET" ELSE "none"]
    ELSE IF tgt \in TerminalFilled
    THEN [resolved |-> TRUE, winner |-> "TARGET",
          cancel |-> IF sl \in StillLive THEN "STOP_LOSS" ELSE "none"]
    ELSE IF sl \in {"CANCELLED", "REJECTED"} /\ tgt \in {"CANCELLED", "REJECTED"}
    THEN [resolved |-> TRUE, winner |-> "none", cancel |-> "none"]
    ELSE [resolved |-> FALSE, winner |-> "none", cancel |-> "none"]

\* OcoDecision of a monitor that gives up when a status call fails: `break`
\* for `continue` in the missing-status branch.
OcoDecisionGivesUpOnFault(sl, tgt) ==
    IF sl = NoStatus \/ tgt = NoStatus
    THEN [resolved |-> TRUE, winner |-> "none", cancel |-> "none"]
    ELSE IF sl \in TerminalFilled
    THEN [resolved |-> TRUE, winner |-> "STOP_LOSS",
          cancel |-> IF tgt \in StillLive THEN "TARGET" ELSE "none"]
    ELSE IF tgt \in TerminalFilled
    THEN [resolved |-> TRUE, winner |-> "TARGET",
          cancel |-> IF sl \in StillLive THEN "STOP_LOSS" ELSE "none"]
    ELSE [resolved |-> FALSE, winner |-> "none", cancel |-> "none"]

\* One pass of the body of `while trade.active` on the status pair (sl, tgt):
\* whether the trade resolves, which branch resolved it, and the leg for
\* which cancel_order is called.
OcoDecision(sl, tgt) ==
    IF sl = NoStatus \/ tgt = NoStatus
    THEN [resolved |-> FALSE, winner |-> "none", cancel |-> "none"]
    ELSE IF sl \in TerminalFilled
    THEN [resolved |-> TRUE, winner |-> "STOP_LOSS",
          cancel |-> IF tgt \in StillLive THEN "TARGET" ELSE "none"]
    ELSE IF tgt \in TerminalFilled
    THEN [resolved |-> TRUE, winner |-> "TARGET",
          cancel |-> IF sl \in StillLive THEN "STOP_LOSS" ELSE "none"]
    ELSE [resolved |-> FALSE, winner |-> "none", cancel |-> "none"]

\* DoneCallbacks of a task to which no cleanup lambda was added.
DoneCallbacksNoCleanup(t) == Wakeups(task[t].waiters)

\* DoneCallbacks of a task to which the cleanup lambda was added twice.
DoneCallbacksCleanupTwice(t) ==
    <<CleanupHandle(t), CleanupHandle(t)>> \o Wakeups(task[t].waiters)

\* The handles call_soon'ed when the monitor task of t becomes done: its done
\* callbacks in the order they were added, the cleanup lambda of
\* start_order_monitoring first, then the wakeups of the tasks awaiting it.
DoneCallbacks(t) == <<CleanupHandle(t)>> \o Wakeups(task[t].waiters)

\* ResolutionProceeds made to depend on the cancel: a failed cancel_order
\* keeps the monitor polling.
ResolutionProceedsOnlyIfCancelled(cancel_ok) == cancel_ok

\* The monitor ignores what cancel_order returned (it only picks the log
\* line): resolution goes on whether or not the loser was cancelled.
ResolutionProceeds(cancel_ok) == TRUE

\* ResolvedTrade without the assignment to trade.active.
ResolvedTradeStaysActive(t) == trade

\* ResolvedTrade of a monitor that marks every trade inactive, not only
\* its own.
ResolvedTradeAll(t) ==
    [x \in DOMAIN trade |-> [trade[x] EXCEPT !.active = FALSE]]

\* `trade.active = False` at resolution.
ResolvedTrade(t) == [trade EXCEPT ![t].active = FALSE]

\* StatusCalls of a monitor that asks for the target leg first.
StatusCallsTargetFirst(t) ==
    <<[call |-> "get_order_status", order |-> trade[t].target_order],
      [call |-> "get_order_status", order |-> trade[t].stop_loss_order]>>

\* The two get_order_status calls that open an iteration, in the order they
\* are made; the second is made whatever the first returned.
StatusCalls(t) ==
    <<[call |-> "get_order_status", order |-> trade[t].stop_loss_order],
      [call |-> "get_order_status", order |-> trade[t].target_order]>>

\* GatewayCalls of a monitor that, when it cancels, cancels both exit
\* orders.
GatewayCallsCancelsBothExits(t, d) ==
    StatusCalls(t) \o
    (IF d.cancel = "none" THEN <<>>
     ELSE <<[call |-> "cancel_order", order |-> trade[t].stop_loss_order],
            [call |-> "cancel_order", order |-> trade[t].target_order]>>)

\* The gateway calls of one iteration on decision d, in order: the two
\* status calls, then the cancel_order of the losing leg if d asks for it.
GatewayCalls(t, d) ==
    StatusCalls(t) \o
    (IF d.cancel = "none" THEN <<>>
     ELSE <<[call |-> "cancel_order", order |-> LegOrder(t, d.cancel)]>>)

\* What a poll iteration of the monitor of t did: the statuses it read, the
\* branch that resolved the trade, its cancel_order call if it made one, and
\* all its gateway calls.
PollRecord(t, sl, tgt, d, cancel_ok) ==
    [trade |-> t, sl |-> sl, target |-> tgt, winner |-> d.winner,
     calls |-> GatewayCalls(t, d),
     cancel |-> IF d.cancel = "none" THEN <<>>
                ELSE <<[leg |-> d.cancel, order |-> LegOrder(t, d.cancel),
                        ok |-> cancel_ok]>>]

\* The monitor of t runs from its wakeup (or its first step) to its next
\* suspension: one iteration of the polling loop, in which each status call
\* gives one of `replies`.
MonitorPoll(t, replies) ==
    /\ Running(MonitorHandle(t))
    /\ ~task[t].must_cancel
    /\ IF ~trade[t].active
       THEN \* `while trade.active` is false: the coroutine returns
            /\ task' = [task EXCEPT ![t].state = "finished",
                                    ![t].waiters = <<>>]
            /\ ready' = Tail(ready) \o DoneCallbacks(t)
            /\ polled' = <<>>
            /\ UNCHANGED <<sleeping, trade>>
       ELSE \E sl \in replies, tgt \in replies, cancel_ok \in BOOLEAN :
              LET d == OcoDecision(sl, tgt)
              IN  /\ d.cancel = "none" => cancel_ok
                  /\ polled' = <<PollRecord(t, sl, tgt, d, cancel_ok)>>
                  /\ IF d.resolved /\ ResolutionProceeds(cancel_ok)
                     THEN /\ trade' = ResolvedTrade(t)
                          /\ task' = [task EXCEPT ![t].state = "finished",
                                                  ![t].waiters = <<>>]
                          /\ ready' = Tail(ready) \o DoneCallbacks(t)
                          /\ UNCHANGED sleeping
                     ELSE /\ task' = [task EXCEPT ![t].state = "sleeping"]
                          /\ sleeping' = sleeping \cup {MonitorHandle(t)}
                          /\ ready' = Tail(ready)
                          /\ UNCHANGED trade
    /\ returned' = <<>>
    /\ UNCHANGED <<pc, op, placements, trade_lock, lock_waiters,
                   active_trades, active_orders, trade_locks, order_counter,
                   cleanup_runs, ops_started>>
    /\ UNCHANGED stream_vars

\* One iteration of the monitor of t, the gateway answering anything.
MonitorIteration(t) == MonitorPoll(t, StatusReplies)

\* The monitor of t is stepped after Task.cancel(): CancelledError is thrown
\* into the coroutine, which does not catch it, so the task ends cancelled.
MonitorCancelled(t) ==
    /\ Running(MonitorHandle(t))
    /\ task[t].must_cancel
    /\ task' = [task EXCEPT ![t].state = "cancelled", ![t].waiters = <<>>]
    /\ ready' = Tail(ready) \o DoneCallbacks(t)
    /\ polled' = <<>>
    /\ returned' = <<>>
    /\ UNCHANGED <<sleeping, pc, op, placements, trade_lock, lock_waiters,
                   active_trades, active_orders, trade_locks, trade,
                   order_counter, cleanup_runs, ops_started>>
    /\ UNCHANGED stream_vars

\* CleanupOrders without the deletion from active_orders.
CleanupOrdersKeeps(t) == active_orders

\* _cleanup_trade_resources: the monitoring-task map without t.
CleanupOrders(t) == active_orders \ {t}

\* CleanupLocks without the deletion from trade_locks.
CleanupLocksLeaks(t) == trade_locks

\* _cleanup_trade_resources: the per-trade lock map without t.
CleanupLocks(t) == trade_locks \ {t}

\* The done callback of the monitor task of t.
CleanupTradeResources(t) ==
    /\ Running(CleanupHandle(t))
    /\ active_orders' = CleanupOrders(t)
    /\ trade_locks' = CleanupLocks(t)
    /\ cleanup_runs' = [cleanup_runs EXCEPT ![t] = @ + 1]
    /\ ready' = Tail(ready)
    /\ polled' = <<>>
    /\ returned' = <<>>
    /\ UNCHANGED <<sleeping, pc, op, placements, trade_lock, lock_waiters,
                   active_trades, trade, task, order_counter, ops_started>>
    /\ UNCHANGED stream_vars

\* The timer of a task suspended in asyncio.sleep expires: the task is
\* scheduled to run.
TimerFire(h) ==
    /\ h \in sleeping
    /\ sleeping' = sleeping \ {h}
    /\ ready' = Append(ready, h)
    /\ task' = IF h.kind = "monitor"
               THEN [task EXCEPT ![h.id].state = "ready"]
               ELSE task
    /\ polled' = <<>>
    /\ returned' = <<>>
    /\ UNCHANGED <<pc, op, placements, trade_lock, lock_waiters,
                   active_trades, active_orders, trade_locks, trade,
                   order_counter, cleanup_runs, ops_started>>
    /\ UNCHANGED stream_vars

\* ------------------------------------------------------------------ callers
\* client.cancel_order calls made by a manager call: execute_trade makes none,
\* and cancel_trade_orders only cancels and awaits the monitor task (its
\* closing note leaves the per-order cancels to "a real implementation").
CancelOrderCalls == <<>>

\* A call of caller c that returns: the TradeResult of execute_new_trade (or
\* the bool of cancel_trade), with the place_order and cancel_order calls
\* the call made.
Return(c, success, message, trade_id, order_ids, placed) ==
    [caller |-> c, op |-> op[c].name, success |-> success,
     message |-> message, trade_id |-> trade_id, order_ids |-> order_ids,
     placements |-> placed, cancels |-> CancelOrderCalls]

\* A caller task is scheduled and will call execute_new_trade.
Submit(c) ==
    /\ pc[c] = "idle"
    /\ ops_started < MaxOps
    /\ ops_started' = ops_started + 1
    /\ op' = [op EXCEPT ![c] = [name |-> "execute_new_trade", arg |-> <<>>]]
    /\ pc' = [pc EXCEPT ![c] = "call"]
    /\ ready' = Append(ready, CallerHandle(c))
    /\ polled' = <<>>
    /\ returned' = <<>>
    /\ UNCHANGED <<sleeping, placements, trade_lock, lock_waiters,
                   active_trades, active_orders, trade_locks, trade, task,
                   order_counter, cleanup_runs>>
    /\ UNCHANGED stream_vars

\* A caller task is scheduled and will call cancel_trade(t).
RequestCancel(c, t) ==
    /\ pc[c] = "idle"
    /\ ops_started < MaxOps
    /\ ops_started' = ops_started + 1
    /\ op' = [op EXCEPT ![c] = [name |-> "cancel_trade", arg |-> <<t>>]]
    /\ pc' = [pc EXCEPT ![c] = "call"]
    /\ ready' = Append(ready, CallerHandle(c))
    /\ polled' = <<>>
    /\ returned' = <<>>
    /\ UNCHANGED <<sleeping, placements, trade_lock, lock_waiters,
                   active_trades, active_orders, trade_locks, trade, task,
                   order_counter, cleanup_runs>>
    /\ UNCHANGED stream_vars

\* execute_new_trade finds trade_lock taken (or queued for): the caller
\* suspends in Lock.acquire.
ExecuteWaitLock(c) ==
    /\ Running(CallerHandle(c))
    /\ op[c].name = "execute_new_trade"
    /\ pc[c] = "call"
    /\ ~CanAcquire(c)
    /\ pc' = [pc EXCEPT ![c] = "wait_lock"]
    /\ lock_waiters' = Append(lock_waiters, c)
    /\ ready' = Tail(ready)
    /\ polled' = <<>>
    /\ returned' = <<>>
    /\ UNCHANGED <<sleeping, op, placements, trade_lock, active_trades,
                   active_orders, trade_locks, trade, task, order_counter,
                   cleanup_runs, ops_started>>
    /\ UNCHANGED stream_vars

\* EntryProceeds without the early return.
EntryProceedsAlways(accepted) == TRUE

\* `if not market_order_id: return`: execute_trade goes on to the exit legs
\* only when the entry leg was accepted.
EntryProceeds(accepted) == accepted

\* execute_new_trade takes trade_lock and execute_trade places the entry
\* leg.  accepted: the gateway returned an order id.  On refusal the call
\* returns at once; otherwise the caller suspends in the settle sleep,
\* still holding trade_lock.
ExecuteEntry(c) ==
    /\ Running(CallerHandle(c))
    /\ op[c].name = "execute_new_trade"
    /\ pc[c] \in {"call", "wait_lock"}
    /\ CanAcquire(c)
    /\ \E accepted \in BOOLEAN :
         LET ws == WaitersAfterAcquire(c)
             entry == [leg |-> "MARKET",
                       order |-> IF accepted THEN <<order_counter + 1>>
                                 ELSE <<>>]
         IN  /\ lock_waiters' = ws
             /\ order_counter' = order_counter + Len(entry.order)
             /\ IF EntryProceeds(accepted)
                THEN /\ placements' = [placements EXCEPT ![c] = <<entry>>]
                     /\ trade_lock' = <<c>>
                     /\ pc' = [pc EXCEPT ![c] = "settle"]
                     /\ sleeping' = sleeping \cup {CallerHandle(c)}
                     /\ ready' = Tail(ready)
                     /\ returned' = <<>>
                ELSE /\ returned' = <<Return(c, FALSE,
                            "Failed to place market order", <<>>, <<>>,
                            <<entry>>)>>
                     /\ trade_lock' = <<>>
                     /\ pc' = [pc EXCEPT ![c] = "idle"]
                     /\ ready' = Tail(ready) \o ReleaseWakeup(ws)
                     /\ UNCHANGED <<placements, sleeping>>
    /\ polled' = <<>>
    /\ UNCHANGED <<op, active_trades, active_orders, trade_locks, trade,
                   task, cleanup_runs, ops_started>>
    /\ UNCHANGED stream_vars

\* StopLossProceeds without the early return.
StopLossProceedsAlways(sl_ok) == TRUE

\* `if not sl_order_id: return`: the target leg is placed only when the
\* stop-loss leg was accepted.
StopLossProceeds(sl_ok) == sl_ok

\* TargetProceeds without the early return.
TargetProceedsAlways(tgt_ok) == TRUE

\* `if not target_order_id: return`: the Trade is built and monitored only
\* when the target leg was accepted.
TargetProceeds(tgt_ok) == tgt_ok

\* The message of the TradeResult execute_trade returns after the exit legs.
ExitMessage(sl_ok, tgt_ok) ==
    IF ~sl_ok THEN "Failed to place stop loss order"
    ELSE IF ~tgt_ok THEN "Failed to place target order"
    ELSE "Trade placed successfully"

\* start_order_monitoring: the per-trade lock map with the lock of t.
StartMonitorLocks(t) == trade_locks \cup {t}

\* StartMonitorOrders without the store into active_orders.
StartMonitorOrdersForgets(t) == active_orders

\* start_order_monitoring: the monitoring-task map with the task of t.
StartMonitorOrders(t) == active_orders \cup {t}

\* The settle sleep is over: execute_trade places the stop-loss and the
\* target leg, builds the Trade, starts its monitor and returns, and
\* execute_new_trade releases trade_lock and returns the result.
ExecuteExits(c) ==
    /\ Running(CallerHandle(c))
    /\ op[c].name = "execute_new_trade"
    /\ pc[c] = "settle"
    /\ \E sl_ok \in BOOLEAN, tgt_ok \in BOOLEAN :
         LET place_tgt == StopLossProceeds(sl_ok)
             sl_order == IF sl_ok THEN <<order_counter + 1>> ELSE <<>>
             after_sl == order_counter + Len(sl_order)
             tgt_order == IF tgt_ok THEN <<after_sl + 1>> ELSE <<>>
             starts == place_tgt /\ TargetProceeds(tgt_ok)
             entry == placements[c][1].order
             placed == placements[c]
                         \o <<[leg |-> "STOP_LOSS", order |-> sl_order]>>
                         \o (IF place_tgt
                             THEN <<[leg |-> "TARGET", order |-> tgt_order]>>
                             ELSE <<>>)
             t == Cardinality(Created) + 1
         IN  /\ ~place_tgt => tgt_ok
             /\ order_counter' =
                    IF place_tgt THEN after_sl + Len(tgt_order) ELSE after_sl
             /\ IF starts
                THEN /\ trade' = (t :> [active |-> TRUE,
                                        market_order |-> entry,
                                        stop_loss_order |-> sl_order,
                                        target_order |-> tgt_order]) @@ trade
                     /\ task' = (t :> [state |-> "ready",
                                       must_cancel |-> FALSE,
                                       waiters |-> <<>>]) @@ task
                     /\ trade_locks' = StartMonitorLocks(t)
                     /\ active_orders' = StartMonitorOrders(t)
                     /\ cleanup_runs' = (t :> 0) @@ cleanup_runs
                     /\ returned' = <<Return(c, TRUE,
                            ExitMessage(sl_ok, tgt_ok), <<t>>,
                            entry \o sl_order \o tgt_order, placed)>>
                     /\ ready' = Tail(ready) \o <<MonitorHandle(t)>>
                                   \o ReleaseWakeup(lock_waiters)
                ELSE /\ returned' = <<Return(c, FALSE,
                            ExitMessage(sl_ok, tgt_ok), <<>>, <<>>, placed)>>
                     /\ ready' = Tail(ready) \o ReleaseWakeup(lock_waiters)
                     /\ UNCHANGED <<trade, task, trade_locks, active_orders,
                                    cleanup_runs>>
    /\ placements' = [placements EXCEPT ![c] = <<>>]
    /\ trade_lock' = <<>>
    /\ pc' = [pc EXCEPT ![c] = "idle"]
    /\ polled' = <<>>
    /\ UNCHANGED <<sleeping, op, lock_waiters, active_trades, ops_started>>
    /\ UNCHANGED stream_vars

\* Monitored of a cancel_trade_orders that finds no monitoring task.
MonitoredNever(t) == FALSE

\* cancel_trade_orders: `if trade_id in self.active_orders`.
Monitored(t) == t \in active_orders

\* AwaitsTask of a cancel_trade_orders that never waits for the monitor.
AwaitsTaskNever(t) == FALSE

\* cancel_trade_orders reaches `await task` on a task that is not done: the
\* caller suspends until the task's done callbacks run.
AwaitsTask(t) == Monitored(t) /\ ~TaskDone(t)

\* cancel_trade(t): cancel_trade_orders cancels the running monitor task and
\* suspends awaiting it.  Cancelling a task that waits in asyncio.sleep
\* cancels the sleep and schedules the task; a task already scheduled is
\* marked so that its next step raises CancelledError.
CancelTradeAwait(c) ==
    /\ Running(CallerHandle(c))
    /\ op[c].name = "cancel_trade"
    /\ pc[c] = "call"
    /\ LET t == op[c].arg[1]
       IN  /\ AwaitsTask(t)
           /\ task' = [task EXCEPT ![t].state = "ready",
                                   ![t].must_cancel = TRUE,
                                   ![t].waiters = Append(@, c)]
           /\ IF task[t].state = "sleeping"
              THEN /\ sleeping' = sleeping \ {MonitorHandle(t)}
                   /\ ready' = Append(Tail(ready), MonitorHandle(t))
              ELSE /\ ready' = Tail(ready)
                   /\ UNCHANGED sleeping
    /\ pc' = [pc EXCEPT ![c] = "await_task"]
    /\ polled' = <<>>
    /\ returned' = <<>>
    /\ UNCHANGED <<op, placements, trade_lock, lock_waiters, active_trades,
                   active_orders, trade_locks, trade, order_counter,
                   cleanup_runs, ops_started>>
    /\ UNCHANGED stream_vars

\* cancel_trade(t) is past cancel_trade_orders: it never awaited (no monitor
\* registered, or its task already done), or it was woken by the task's end
\* or by the release of trade_lock.
PastCancelOrders(c) ==
    \/ pc[c] \in {"await_task", "wait_lock"}
    \/ pc[c] = "call" /\ ~AwaitsTask(op[c].arg[1])

\* remove_active_trade finds trade_lock taken: the caller suspends.
CancelTradeWaitLock(c) ==
    /\ Running(CallerHandle(c))
    /\ op[c].name = "cancel_trade"
    /\ PastCancelOrders(c)
    /\ ~CanAcquire(c)
    /\ pc' = [pc EXCEPT ![c] = "wait_lock"]
    /\ lock_waiters' = Append(lock_waiters, c)
    /\ ready' = Tail(ready)
    /\ polled' = <<>>
    /\ returned' = <<>>
    /\ UNCHANGED <<sleeping, op, placements, trade_lock, active_trades,
                   active_orders, trade_locks, trade, task, order_counter,
                   cleanup_runs, ops_started>>
    /\ UNCHANGED stream_vars

\* cancel_trade_orders returned True: remove_active_trade deletes the id
\* from the registry under trade_lock, and cancel_trade returns True.
CancelTradeReturn(c) ==
    /\ Running(CallerHandle(c))
    /\ op[c].name = "cancel_trade"
    /\ PastCancelOrders(c)
    /\ CanAcquire(c)
    /\ LET ws == WaitersAfterAcquire(c)
       IN  /\ lock_waiters' = ws
           /\ ready' = Tail(ready) \o ReleaseWakeup(ws)
    /\ active_trades' = RegistryWithout(op[c].arg[1])
    /\ returned' = <<Return(c, TRUE, "", op[c].arg, <<>>, <<>>)>>
    /\ pc' = [pc EXCEPT ![c] = "idle"]
    /\ polled' = <<>>
    /\ UNCHANGED <<sleeping, op, placements, trade_lock, active_orders,
                   trade_locks, trade, task, order_counter, cleanup_runs,
                   ops_started>>
    /\ UNCHANGED stream_vars

\* A caller task is scheduled and will call get_trade_status for id t.
RequestStatus(c, t) ==
    /\ pc[c] = "idle"
    /\ op' = [op EXCEPT ![c] = [name |-> "get_trade_status", arg |-> <<t>>]]
    /\ pc' = [pc EXCEPT ![c] = "call"]
    /\ ready' = Append(ready, CallerHandle(c))
    /\ polled' = <<>>
    /\ returned' = <<>>
    /\ UNCHANGED <<sleeping, placements, trade_lock, lock_waiters,
                   active_trades, active_orders, trade_locks, trade, task,
                   order_counter, cleanup_runs, ops_started>>
    /\ UNCHANGED stream_vars

\* What get_trade_status returns for id t: <<>> for None, or the dictionary
\* with its two constant entries.
TradeStatus(t) ==
    IF t \notin active_orders THEN <<>>
    ELSE <<[trade_id |-> t, active |-> TRUE, status |-> "MONITORING"]>>

\* get_trade_status runs from its call to its return without suspending.
GetTradeStatus(c) ==
    /\ Running(CallerHandle(c))
    /\ op[c].name = "get_trade_status"
    /\ pc[c] = "call"
    /\ returned' = <<[caller |-> c, op |-> "get_trade_status",
                      trade_id |-> op[c].arg,
                      result |-> TradeStatus(op[c].arg[1])]>>
    /\ pc' = [pc EXCEPT ![c] = "idle"]
    /\ ready' = Tail(ready)
    /\ polled' = <<>>
    /\ UNCHANGED <<sleeping, op, placements, trade_lock, lock_waiters,
                   active_trades, active_orders, trade_locks, trade, task,
                   order_counter, cleanup_runs, ops_started>>
    /\ UNCHANGED stream_vars

\* ------------------------------------------------------- registry operations
\* The variables the registry operations leave alone, besides the streams.
executor_side == <<sleeping, placements, active_orders, trade_locks, trade,
                   order_counter, cleanup_runs, ops_started>>

\* A caller task is scheduled and will call add_active_trade with the Trade
\* of id t.
RequestAdd(c, t) ==
    /\ pc[c] = "idle"
    /\ t \in Created
    /\ op' = [op EXCEPT ![c] = [name |-> "add_active_trade", arg |-> <<t>>]]
    /\ pc' = [pc EXCEPT ![c] = "call"]
    /\ ready' = Append(ready, CallerHandle(c))
    /\ polled' = <<>>
    /\ returned' = <<>>
    /\ UNCHANGED <<trade_lock, lock_waiters, active_trades, task>>
    /\ UNCHANGED executor_side
    /\ UNCHANGED stream_vars

\* add_active_trade finds trade_lock taken: the caller suspends.
AddWaitLock(c) ==
    /\ Running(CallerHandle(c))
    /\ op[c].name = "add_active_trade"
    /\ pc[c] = "call"
    /\ ~CanAcquire(c)
    /\ pc' = [pc EXCEPT ![c] = "wait_lock"]
    /\ lock_waiters' = Append(lock_waiters, c)
    /\ ready' = Tail(ready)
    /\ polled' = <<>>
    /\ returned' = <<>>
    /\ UNCHANGED <<op, trade_lock, active_trades, task>>
    /\ UNCHANGED executor_side
    /\ UNCHANGED stream_vars

\* add_active_trade stores the trade under trade_lock and returns.
AddActiveTrade(c) ==
    /\ Running(CallerHandle(c))
    /\ op[c].name = "add_active_trade"
    /\ pc[c] \in {"call", "wait_lock"}
    /\ CanAcquire(c)
    /\ LET ws == WaitersAfterAcquire(c)
       IN  /\ lock_waiters' = ws
           /\ ready' = Tail(ready) \o ReleaseWakeup(ws)
    /\ active_trades' = active_trades \cup {op[c].arg[1]}
    /\ returned' = <<Return(c, TRUE, "", op[c].arg, <<>>, <<>>)>>
    /\ pc' = [pc EXCEPT ![c] = "idle"]
    /\ polled' = <<>>
    /\ UNCHANGED <<op, trade_lock, task>>
    /\ UNCHANGED executor_side
    /\ UNCHANGED stream_vars

\* A caller task is scheduled and will call cancel_all_trades or cleanup.
RequestBulk(c, name) ==
    /\ pc[c] = "idle"
    /\ op' = [op EXCEPT ![c] = [name |-> name, arg |-> <<>>,
                                snapshot |-> <<>>]]
    /\ pc' = [pc EXCEPT ![c] = "call"]
    /\ ready' = Append(ready, CallerHandle(c))
    /\ polled' = <<>>
    /\ returned' = <<>>
    /\ UNCHANGED <<trade_lock, lock_waiters, active_trades, task>>
    /\ UNCHANGED executor_side
    /\ UNCHANGED stream_vars

\* c runs cancel_all_trades, directly or as the first half of cleanup.
InCancelAll(c) ==
    \/ op[c].name = "cancel_all_trades"
    \/ op[c].name = "cleanup"
         /\ pc[c] \in {"call", "wait_snapshot", "next_item", "await_task",
                       "wait_lock"}

\* cancel_all_trades finds trade_lock taken: the caller suspends.
CancelAllWaitSnapshot(c) ==
    /\ Running(CallerHandle(c))
    /\ InCancelAll(c)
    /\ pc[c] = "call"
    /\ ~CanAcquire(c)
    /\ pc' = [pc EXCEPT ![c] = "wait_snapshot"]
    /\ lock_waiters' = Append(lock_waiters, c)
    /\ ready' = Tail(ready)
    /\ polled' = <<>>
    /\ returned' = <<>>
    /\ UNCHANGED <<op, trade_lock, active_trades, task>>
    /\ UNCHANGED executor_side
    /\ UNCHANGED stream_vars

\* LockAfterSnapshot of a cancel_all_trades whose loop is inside the
\* `async with` block.
LockAfterSnapshotKept(c) == <<c>>

\* trade_lock as cancel_all_trades leaves it after its snapshot: the
\* `async with` block ends before the loop over the ids.
LockAfterSnapshot(c) == <<>>

\* RegistryKeys of a cancel_all_trades that takes the ids from the
\* executor's active_orders.
RegistryKeysOfExecutor == active_orders

\* `self.active_trades.keys()`: the ids cancel_all_trades snapshots.
RegistryKeys == active_trades

\* cancel_all_trades copies the keys of active_trades under trade_lock and
\* releases it; the caller goes on to its loop without suspending.
CancelAllSnapshot(c) ==
    /\ Running(CallerHandle(c))
    /\ InCancelAll(c)
    /\ pc[c] \in {"call", "wait_snapshot"}
    /\ CanAcquire(c)
    /\ LET ws == WaitersAfterAcquire(c)
       IN  /\ lock_waiters' = ws
           /\ ready' = ready \o ReleaseWakeup(ws)
    /\ trade_lock' = LockAfterSnapshot(c)
    /\ \E trade_ids \in Orderings(RegistryKeys) :
          op' = [op EXCEPT ![c].arg = trade_ids, ![c].snapshot = trade_ids]
    /\ pc' = [pc EXCEPT ![c] = "next_item"]
    /\ polled' = <<>>
    /\ returned' = <<>>
    /\ UNCHANGED <<active_trades, task>>
    /\ UNCHANGED executor_side
    /\ UNCHANGED stream_vars

\* cancel_all_trades calls cancel_trade for the next id of its snapshot:
\* cancel_trade_orders cancels the running monitor and suspends awaiting it,
\* as in CancelTradeAwait.
CancelAllAwait(c) ==
    /\ Running(CallerHandle(c))
    /\ InCancelAll(c)
    /\ pc[c] = "next_item"
    /\ op[c].arg # <<>>
    /\ LET t == Head(op[c].arg)
       IN  /\ AwaitsTask(t)
           /\ task' = [task EXCEPT ![t].state = "ready",
                                   ![t].must_cancel = TRUE,
                                   ![t].waiters = Append(@, c)]
           /\ IF task[t].state = "sleeping"
              THEN /\ sleeping' = sleeping \ {MonitorHandle(t)}
                   /\ ready' = Append(Tail(ready), MonitorHandle(t))
              ELSE /\ ready' = Tail(ready)
                   /\ UNCHANGED sleeping
    /\ pc' = [pc EXCEPT ![c] = "await_task"]
    /\ polled' = <<>>
    /\ returned' = <<>>
    /\ UNCHANGED <<op, placements, trade_lock, lock_waiters, active_trades,
                   active_orders, trade_locks, trade, order_counter,
                   cleanup_runs, ops_started>>
    /\ UNCHANGED stream_vars

\* The cancel_trade call of cancel_all_trades is past cancel_trade_orders.
PastItemCancelOrders(c) ==
    \/ pc[c] \in {"await_task", "wait_lock"}
    \/ pc[c] = "next_item" /\ op[c].arg # <<>>
                           /\ ~AwaitsTask(Head(op[c].arg))

\* remove_active_trade, called for an id of the snapshot, finds trade_lock
\* taken: the caller suspends.
CancelAllWaitLock(c) ==
    /\ Running(CallerHandle(c))
    /\ InCancelAll(c)
    /\ PastItemCancelOrders(c)
    /\ ~CanAcquire(c)
    /\ pc' = [pc EXCEPT ![c] = "wait_lock"]
    /\ lock_waiters' = Append(lock_waiters, c)
    /\ ready' = Tail(ready)
    /\ polled' = <<>>
    /\ returned' = <<>>
    /\ UNCHANGED <<op, trade_lock, active_trades, task>>
    /\ UNCHANGED executor_side
    /\ UNCHANGED stream_vars

\* The cancel_trade call for the head of the snapshot completes:
\* remove_active_trade deletes the id under trade_lock, and the loop goes on
\* to the next id without suspending.
CancelAllItemDone(c) ==
    /\ Running(CallerHandle(c))
    /\ InCancelAll(c)
    /\ PastItemCancelOrders(c)
    /\ CanAcquire(c)
    /\ LET ws == WaitersAfterAcquire(c)
       IN  /\ lock_waiters' = ws
           /\ ready' = ready \o ReleaseWakeup(ws)
    /\ active_trades' = RegistryWithout(Head(op[c].arg))
    /\ op' = [op EXCEPT ![c].arg = Tail(@)]
    /\ pc' = [pc EXCEPT ![c] = "next_item"]
    /\ polled' = <<>>
    /\ returned' = <<>>
    /\ UNCHANGED <<trade_lock, task>>
    /\ UNCHANGED executor_side
    /\ UNCHANGED stream_vars

\* The loop of cancel_all_trades is over and the call returns.
CancelAllReturn(c) ==
    /\ Running(CallerHandle(c))
    /\ op[c].name = "cancel_all_trades"
    /\ pc[c] = "next_item"
    /\ op[c].arg = <<>>
    /\ returned' = <<Return(c, TRUE, "", op[c].snapshot, <<>>, <<>>)>>
    /\ pc' = [pc EXCEPT ![c] = "idle"]
    /\ ready' = Tail(ready)
    /\ polled' = <<>>
    /\ UNCHANGED <<op, trade_lock, lock_waiters, active_trades, task>>
    /\ UNCHANGED executor_side
    /\ UNCHANGED stream_vars

\* cleanup: cancel_all_trades returned, stop_all_ltp_streams is called next;
\* nothing suspends in between.
CleanupToStreams(c) ==
    /\ Running(CallerHandle(c))
    /\ op[c].name = "cleanup"
    /\ pc[c] = "next_item"
    /\ op[c].arg = <<>>
    /\ pc' = [pc EXCEPT ![c] = "streams_call"]
    /\ polled' = <<>>
    /\ returned' = <<>>
    /\ UNCHANGED <<ready, op, trade_lock, lock_waiters, active_trades, task>>
    /\ UNCHANGED executor_side
    /\ UNCHANGED stream_vars

\* A caller task is scheduled and will call get_active_trades.
RequestList(c) ==
    /\ pc[c] = "idle"
    /\ op' = [op EXCEPT ![c] = [name |-> "get_active_trades", arg |-> <<>>]]
    /\ pc' = [pc EXCEPT ![c] = "call"]
    /\ ready' = Append(ready, CallerHandle(c))
    /\ polled' = <<>>
    /\ returned' = <<>>
    /\ UNCHANGED <<trade_lock, lock_waiters, active_trades, task>>
    /\ UNCHANGED executor_side
    /\ UNCHANGED stream_vars

\* get_active_trades finds trade_lock taken: the caller suspends.
ListWaitLock(c) ==
    /\ Running(CallerHandle(c))
    /\ op[c].name = "get_active_trades"
    /\ pc[c] = "call"
    /\ ~CanAcquire(c)
    /\ pc' = [pc EXCEPT ![c] = "wait_lock"]
    /\ lock_waiters' = Append(lock_waiters, c)
    /\ ready' = Tail(ready)
    /\ polled' = <<>>
    /\ returned' = <<>>
    /\ UNCHANGED <<op, trade_lock, active_trades, task>>
    /\ UNCHANGED executor_side
    /\ UNCHANGED stream_vars

\* ListOfValues of a get_active_trades that returns the dictionary's view
\* object, whose content is the dictionary's at the time it is read.
ListOfValuesView(items) == [kind |-> "view", items |-> <<>>]

\* `list(self.active_trades.values())`: a new list holding the trades that
\* are in the registry when it is built.
ListOfValues(items) == [kind |-> "list", items |-> items]

\* get_active_trades builds its result under trade_lock and returns it; the
\* caller keeps the result in op[c].result until its next request.
GetActiveTrades(c) ==
    /\ Running(CallerHandle(c))
    /\ op[c].name = "get_active_trades"
    /\ pc[c] \in {"call", "wait_lock"}
    /\ CanAcquire(c)
    /\ LET ws == WaitersAfterAcquire(c)
       IN  /\ lock_waiters' = ws
           /\ ready' = Tail(ready) \o ReleaseWakeup(ws)
    /\ \E items \in Orderings(active_trades) :
          /\ op' = [op EXCEPT ![c] =
                       [name |-> "get_active_trades", arg |-> <<>>,
                        result |-> ListOfValues(items)]]
          /\ returned' = <<Return(c, TRUE, "", items, <<>>, <<>>)>>
    /\ pc' = [pc EXCEPT ![c] = "idle"]
    /\ polled' = <<>>
    /\ UNCHANGED <<trade_lock, active_trades, task>>
    /\ UNCHANGED executor_side
    /\ UNCHANGED stream_vars

\* A caller task is scheduled and will call get_overall_status.
RequestOverall(c) ==
    /\ pc[c] = "idle"
    /\ op' = [op EXCEPT ![c] = [name |-> "get_overall_status",
                                arg |-> <<>>, count |-> <<>>]]
    /\ pc' = [pc EXCEPT ![c] = "call"]
    /\ ready' = Append(ready, CallerHandle(c))
    /\ polled' = <<>>
    /\ returned' = <<>>
    /\ UNCHANGED <<trade_lock, lock_waiters, active_trades, task>>
    /\ UNCHANGED executor_side
    /\ UNCHANGED stream_vars

\* The dictionary get_overall_status returns: the count it read and one
\* summary per trade of the list it read.
OverallStatus(active_count, items) ==
    [total_active_trades |-> active_count,
     trades |-> [i \in DOMAIN items |->
                    [trade_id |-> items[i], active |-> trade[items[i]].active]]]

\* The return of get_overall_status to caller c.
OverallReturn(c, active_count, items) ==
    [caller |-> c, op |-> "get_overall_status",
     result |-> OverallStatus(active_count, items)]

\* get_active_trades_count, the first call of get_overall_status, finds
\* trade_lock taken: the caller suspends.
OverallWaitCount(c) ==
    /\ Running(CallerHandle(c))
    /\ op[c].name = "get_overall_status"
    /\ pc[c] = "call"
    /\ ~CanAcquire(c)
    /\ pc' = [pc EXCEPT ![c] = "wait_count"]
    /\ lock_waiters' = Append(lock_waiters, c)
    /\ ready' = Tail(ready)
    /\ polled' = <<>>
    /\ returned' = <<>>
    /\ UNCHANGED <<op, trade_lock, active_trades, task>>
    /\ UNCHANGED executor_side
    /\ UNCHANGED stream_vars

\* get_active_trades_count reads len(active_trades) under trade_lock and
\* releases it; nobody waits for the lock, so get_active_trades takes it at
\* once, copies the values, and get_overall_status returns without having
\* suspended between its two reads.
OverallCountAndList(c) ==
    /\ Running(CallerHandle(c))
    /\ op[c].name = "get_overall_status"
    /\ pc[c] \in {"call", "wait_count"}
    /\ CanAcquire(c)
    /\ WaitersAfterAcquire(c) = <<>>
    /\ lock_waiters' = <<>>
    /\ ready' = Tail(ready)
    /\ \E items \in Orderings(active_trades) :
          returned' = <<OverallReturn(c, Cardinality(active_trades), items)>>
    /\ pc' = [pc EXCEPT ![c] = "idle"]
    /\ polled' = <<>>
    /\ UNCHANGED <<op, trade_lock, active_trades, task>>
    /\ UNCHANGED executor_side
    /\ UNCHANGED stream_vars

\* get_active_trades_count reads len(active_trades) under trade_lock and
\* releases it, which wakes the first waiter; get_active_trades then finds
\* waiters queued for the lock and suspends behind them.
OverallCountThenWait(c) ==
    /\ Running(CallerHandle(c))
    /\ op[c].name = "get_overall_status"
    /\ pc[c] \in {"call", "wait_count"}
    /\ CanAcquire(c)
    /\ LET ws == WaitersAfterAcquire(c)
       IN  /\ ws # <<>>
           /\ lock_waiters' = Append(ws, c)
           /\ ready' = Tail(ready) \o ReleaseWakeup(ws)
    /\ op' = [op EXCEPT ![c].count = <<Cardinality(active_trades)>>]
    /\ pc' = [pc EXCEPT ![c] = "wait_list"]
    /\ polled' = <<>>
    /\ returned' = <<>>
    /\ UNCHANGED <<trade_lock, active_trades, task>>
    /\ UNCHANGED executor_side
    /\ UNCHANGED stream_vars

\* get_active_trades gets trade_lock after waiting, copies the values, and
\* get_overall_status returns the count it read earlier with this list.
OverallList(c) ==
    /\ Running(CallerHandle(c))
    /\ op[c].name = "get_overall_status"
    /\ pc[c] = "wait_list"
    /\ CanAcquire(c)
    /\ LET ws == WaitersAfterAcquire(c)
       IN  /\ lock_waiters' = ws
           /\ ready' = Tail(ready) \o ReleaseWakeup(ws)
    /\ \E items \in Orderings(active_trades) :
          returned' = <<OverallReturn(c, op[c].count[1], items)>>
    /\ pc' = [pc EXCEPT ![c] = "idle"]
    /\ polled' = <<>>
    /\ UNCHANGED <<op, trade_lock, active_trades, task>>
    /\ UNCHANGED executor_side
    /\ UNCHANGED stream_vars

\* ------------------------------------------------------------ price streams
\* The variables no stream operation touches.
trade_side == <<sleeping, placements, trade_lock, lock_waiters, active_trades,
                active_orders, trade_locks, trade, task, order_counter,
                cleanup_runs>>

StreamHandle(k) == [kind |-> "stream", id |-> k]

StreamDone(k) == stream_task[k].state \in {"finished", "cancelled"}

\* Lock.acquire on stream_lock, as CanAcquire on trade_lock.
CanAcquireStream(c) ==
    /\ stream_lock = <<>>
    /\ IF stream_waiters = <<>> THEN TRUE ELSE Head(stream_waiters) = c

\* The waiter queue of stream_lock once c holds it.
StreamWaitersAfterAcquire(c) ==
    IF stream_waiters # <<>> /\ Head(stream_waiters) = c
    THEN Tail(stream_waiters)
    ELSE stream_waiters

\* AwaitsStream of a start or stop that never waits for the old task.
AwaitsStreamNever(s) == FALSE

\* `if symbol in self.ltp_streams` finds a task that is not done: cancel()
\* marks it and `await self.ltp_streams[symbol]` suspends the caller.
AwaitsStream(s) == s \in DOMAIN ltp_streams /\ ~StreamDone(ltp_streams[s])

\* ltp_streams after `del self.ltp_streams[symbol]`.
WithoutStream(s) == [x \in DOMAIN ltp_streams \ {s} |-> ltp_streams[x]]

\* A stream task runs for the first time.  Cancelled before it started, it
\* ends cancelled.  Otherwise _run_ltp_stream looks up
\* client.start_ltp_stream, which KotakNeoClient does not define: the
\* AttributeError is caught by `except Exception` and the task finishes.
RunLtpStream(k) ==
    /\ Running(StreamHandle(k))
    /\ stream_task' = [stream_task EXCEPT
                         ![k].state = IF stream_task[k].must_cancel
                                      THEN "cancelled" ELSE "finished",
                         ![k].waiters = <<>>]
    /\ ready' = Tail(ready) \o Wakeups(stream_task[k].waiters)
    /\ polled' = <<>>
    /\ returned' = <<>>
    /\ UNCHANGED <<pc, op, ops_started, stream_lock, stream_waiters,
                   ltp_streams>>
    /\ UNCHANGED trade_side

\* A caller task is scheduled and will call one of the stream operations:
\* start_ltp_stream_for_symbol(s) or stop_ltp_stream_for_symbol(s).
RequestStream(c, name, s) ==
    /\ pc[c] = "idle"
    /\ ops_started < MaxStreamOps
    /\ ops_started' = ops_started + 1
    /\ op' = [op EXCEPT ![c] = [name |-> name, arg |-> <<s>>]]
    /\ pc' = [pc EXCEPT ![c] = "call"]
    /\ ready' = Append(ready, CallerHandle(c))
    /\ polled' = <<>>
    /\ returned' = <<>>
    /\ UNCHANGED stream_vars
    /\ UNCHANGED trade_side

\* A caller task is scheduled and will call stop_all_ltp_streams.
RequestStopAll(c) ==
    /\ pc[c] = "idle"
    /\ ops_started < MaxStreamOps
    /\ ops_started' = ops_started + 1
    /\ op' = [op EXCEPT ![c] = [name |-> "stop_all_ltp_streams",
                                arg |-> <<>>]]
    /\ pc' = [pc EXCEPT ![c] = "call"]
    /\ ready' = Append(ready, CallerHandle(c))
    /\ polled' = <<>>
    /\ returned' = <<>>
    /\ UNCHANGED stream_vars
    /\ UNCHANGED trade_side

\* c runs stop_all_ltp_streams, directly or as the second half of cleanup.
InStopAll(c) ==
    \/ op[c].name = "stop_all_ltp_streams"
    \/ op[c].name = "cleanup"
         /\ pc[c] \in {"streams_call", "wait_stream_snapshot", "next_stream",
                       "wait_stream_lock", "await_stream"}

\* c is about to enter stop_all_ltp_streams.
AtStopAllCall(c) ==
    \/ op[c].name = "stop_all_ltp_streams" /\ pc[c] = "call"
    \/ op[c].name = "cleanup" /\ pc[c] = "streams_call"

\* c is about to enter `async with self.stream_lock` of a start or a stop of
\* one symbol: its own call, or stop_all's call for the next symbol of its
\* snapshot.  The symbol is the head of op[c].arg.
AtStreamLock(c) ==
    \/ op[c].name \in {"start_ltp_stream_for_symbol",
                       "stop_ltp_stream_for_symbol"}
         /\ pc[c] = "call"
    \/ InStopAll(c) /\ pc[c] = "next_stream" /\ op[c].arg # <<>>

\* c runs stop_ltp_stream_for_symbol, its own call or one of stop_all's.
InStop(c) == op[c].name = "stop_ltp_stream_for_symbol" \/ InStopAll(c)

\* stop_all_ltp_streams finds stream_lock taken: the caller suspends.
StopAllWaitSnapshot(c) ==
    /\ Running(CallerHandle(c))
    /\ AtStopAllCall(c)
    /\ ~CanAcquireStream(c)
    /\ pc' = [pc EXCEPT ![c] = "wait_stream_snapshot"]
    /\ stream_waiters' = Append(stream_waiters, c)
    /\ ready' = Tail(ready)
    /\ polled' = <<>>
    /\ returned' = <<>>
    /\ UNCHANGED <<op, ops_started, stream_lock, ltp_streams, stream_task>>
    /\ UNCHANGED trade_side

\* LockAfterStreamSnapshot of a stop_all_ltp_streams whose loop is inside
\* the `async with` block.
LockAfterStreamSnapshotKept(c) == <<c>>

\* stream_lock as stop_all_ltp_streams leaves it after its snapshot: the
\* `async with` block ends before the loop over the symbols.
LockAfterStreamSnapshot(c) == <<>>

\* stop_all_ltp_streams copies the keys of ltp_streams under stream_lock and
\* releases it; the caller goes on to its loop without suspending.
StopAllSnapshot(c) ==
    /\ Running(CallerHandle(c))
    /\ AtStopAllCall(c) \/ (InStopAll(c) /\ pc[c] = "wait_stream_snapshot")
    /\ CanAcquireStream(c)
    /\ LET ws == StreamWaitersAfterAcquire(c)
       IN  /\ stream_waiters' = ws
           /\ ready' = ready \o ReleaseWakeup(ws)
    /\ stream_lock' = LockAfterStreamSnapshot(c)
    /\ \E symbols \in Orderings(DOMAIN ltp_streams) :
          op' = [op EXCEPT ![c].arg = symbols]
    /\ pc' = [pc EXCEPT ![c] = "next_stream"]
    /\ polled' = <<>>
    /\ returned' = <<>>
    /\ UNCHANGED <<ops_started, ltp_streams, stream_task>>
    /\ UNCHANGED trade_side

\* The loop of stop_all_ltp_streams is over: the call (or cleanup) returns.
StopAllReturn(c) ==
    /\ Running(CallerHandle(c))
    /\ InStopAll(c)
    /\ pc[c] = "next_stream"
    /\ op[c].arg = <<>>
    /\ returned' = <<Return(c, TRUE, "", <<>>, <<>>, <<>>)>>
    /\ pc' = [pc EXCEPT ![c] = "idle"]
    /\ ready' = Tail(ready)
    /\ polled' = <<>>
    /\ UNCHANGED <<op, ops_started>>
    /\ UNCHANGED stream_vars
    /\ UNCHANGED trade_side

\* A start or stop of one symbol finds stream_lock taken: the caller
\* suspends in Lock.acquire.
StreamWaitLock(c) ==
    /\ Running(CallerHandle(c))
    /\ AtStreamLock(c)
    /\ ~CanAcquireStream(c)
    /\ pc' = [pc EXCEPT ![c] = "wait_stream_lock"]
    /\ stream_waiters' = Append(stream_waiters, c)
    /\ ready' = Tail(ready)
    /\ polled' = <<>>
    /\ returned' = <<>>
    /\ UNCHANGED <<op, ops_started, stream_lock, ltp_streams, stream_task>>
    /\ UNCHANGED trade_side

\* Under stream_lock, c cancels the unfinished task of symbol s and suspends
\* awaiting it; the lock stays held.
CancelAndAwaitStream(c, s) ==
    /\ stream_task' = [stream_task EXCEPT
                         ![ltp_streams[s]].must_cancel = TRUE,
                         ![ltp_streams[s]].waiters = Append(@, c)]
    /\ stream_lock' = <<c>>
    /\ stream_waiters' = StreamWaitersAfterAcquire(c)
    /\ pc' = [pc EXCEPT ![c] = "await_stream"]
    /\ ready' = Tail(ready)
    /\ returned' = <<>>
    /\ UNCHANGED <<op, ltp_streams>>

\* start_ltp_stream_for_symbol(s) leaves its `async with` block: the new
\* task is created and installed, stream_lock is released, the call returns.
InstallStream(c, s, ws) ==
    /\ stream_task' = Append(stream_task,
                             [symbol |-> s, state |-> "ready",
                              must_cancel |-> FALSE, waiters |-> <<>>])
    /\ ltp_streams' = (s :> Len(stream_task) + 1) @@ ltp_streams
    /\ stream_lock' = <<>>
    /\ stream_waiters' = ws
    /\ ready' = Tail(ready) \o <<StreamHandle(Len(stream_task) + 1)>>
                  \o ReleaseWakeup(ws)
    /\ returned' = <<Return(c, TRUE, "", <<>>, <<>>, <<>>)>>
    /\ pc' = [pc EXCEPT ![c] = "idle"]
    /\ UNCHANGED op

\* start_ltp_stream_for_symbol takes stream_lock: it cancels and awaits the
\* symbol's old task if that is not done, else installs the new task.
StartLtpStream(c) ==
    /\ Running(CallerHandle(c))
    /\ op[c].name = "start_ltp_stream_for_symbol"
    /\ pc[c] \in {"call", "wait_stream_lock"}
    /\ CanAcquireStream(c)
    /\ IF AwaitsStream(Head(op[c].arg))
       THEN CancelAndAwaitStream(c, Head(op[c].arg))
       ELSE InstallStream(c, Head(op[c].arg), StreamWaitersAfterAcquire(c))
    /\ polled' = <<>>
    /\ UNCHANGED ops_started
    /\ UNCHANGED trade_side

\* The old task ended: start_ltp_stream_for_symbol, woken, installs the new
\* task.
StartLtpStreamInstall(c) ==
    /\ Running(CallerHandle(c))
    /\ op[c].name = "start_ltp_stream_for_symbol"
    /\ pc[c] = "await_stream"
    /\ InstallStream(c, Head(op[c].arg), stream_waiters)
    /\ polled' = <<>>
    /\ UNCHANGED ops_started
    /\ UNCHANGED trade_side

\* stop_ltp_stream_for_symbol(s) leaves its `async with` block: the entry of
\* s, if any, is deleted and stream_lock released.  Its own call returns;
\* stop_all_ltp_streams goes on to its next symbol without suspending.
DeleteStream(c, s, ws) ==
    /\ ltp_streams' = WithoutStream(s)
    /\ stream_lock' = <<>>
    /\ stream_waiters' = ws
    /\ IF InStopAll(c)
       THEN /\ op' = [op EXCEPT ![c].arg = Tail(@)]
            /\ pc' = [pc EXCEPT ![c] = "next_stream"]
            /\ ready' = ready \o ReleaseWakeup(ws)
            /\ returned' = <<>>
       ELSE /\ returned' = <<Return(c, TRUE, "", <<>>, <<>>, <<>>)>>
            /\ pc' = [pc EXCEPT ![c] = "idle"]
            /\ ready' = Tail(ready) \o ReleaseWakeup(ws)
            /\ UNCHANGED op
    /\ UNCHANGED stream_task

\* stop_ltp_stream_for_symbol takes stream_lock: it cancels and awaits the
\* symbol's task if that is not done, else deletes the entry.
StopLtpStream(c) ==
    /\ Running(CallerHandle(c))
    /\ InStop(c)
    /\ AtStreamLock(c) \/ pc[c] = "wait_stream_lock"
    /\ CanAcquireStream(c)
    /\ IF AwaitsStream(Head(op[c].arg))
       THEN CancelAndAwaitStream(c, Head(op[c].arg))
       ELSE DeleteStream(c, Head(op[c].arg), StreamWaitersAfterAcquire(c))
    /\ polled' = <<>>
    /\ UNCHANGED ops_started
    /\ UNCHANGED trade_side

\* The task ended: stop_ltp_stream_for_symbol, woken, deletes the entry.
StopLtpStreamDelete(c) ==
    /\ Running(CallerHandle(c))
    /\ InStop(c)
    /\ pc[c] = "await_stream"
    /\ DeleteStream(c, Head(op[c].arg), stream_waiters)
    /\ polled' = <<>>
    /\ UNCHANGED ops_started
    /\ UNCHANGED trade_side

\* ------------------------------------------------------- bracket construction
\* Inputs of execute_trade: prices and points in ticks.
TradeSides == {"BUY", "SELL"}
EntryPrices == {5, 100}
PointValues == {0, 5, 10}
Quantities == {1, 10}
TradeInputs ==
    [symbol : Symbols, side : TradeSides, quantity : Quantities,
     entry_price : EntryPrices, stop_loss_points : PointValues,
     target_points : PointValues]

\* OppositeSide of an execute_trade whose exit orders keep the entry side.
OppositeSideSame(side) == side

\* `TradeSide.SELL if side == TradeSide.BUY else TradeSide.BUY`.
OppositeSide(side) == IF side = "BUY" THEN "SELL" ELSE "BUY"

\* StopLossPrice with the subtraction of the BUY branch on both sides.
StopLossPriceAlwaysBelow(side, entry_price, stop_loss_points) ==
    entry_price - stop_loss_points

\* stop_loss_price of the two branches of `if side == TradeSide.BUY`.
StopLossPrice(side, entry_price, stop_loss_points) ==
    IF side = "BUY" THEN entry_price - stop_loss_points
    ELSE entry_price + stop_loss_points

\* target_price of the two branches of `if side == TradeSide.BUY`.
TargetPrice(side, entry_price, target_points) ==
    IF side = "BUY" THEN entry_price + target_points
    ELSE entry_price - target_points

\* An Optional[float] trigger price: None is the empty sequence, a number p
\* the one-element sequence <<p>>.
NoPrice == <<>>

\* The three Order objects execute_trade builds from its arguments, in
\* placement order.
BracketOrders(in) ==
    LET stop_loss_price ==
            StopLossPrice(in.side, in.entry_price, in.stop_loss_points)
        target_price ==
            TargetPrice(in.side, in.entry_price, in.target_points)
        opposite_side == OppositeSide(in.side)
    IN  <<[symbol |-> in.symbol, order_type |-> "MARKET", side |-> in.side,
           quantity |-> in.quantity, price |-> in.entry_price,
           trigger_price |-> NoPrice],
          [symbol |-> in.symbol, order_type |-> "STOP_LOSS",
           side |-> opposite_side, quantity |-> in.quantity,
           price |-> stop_loss_price, trigger_price |-> <<stop_loss_price>>],
          [symbol |-> in.symbol, order_type |-> "TARGET",
           side |-> opposite_side, quantity |-> in.quantity,
           price |-> target_price, trigger_price |-> <<target_price>>]>>

\* Python's `trigger_price or price`: the first operand unless it is None
\* or zero.
TriggerOrPrice(order) ==
    IF order.trigger_price = NoPrice THEN order.price
    ELSE IF order.trigger_price[1] = 0 THEN order.price
    ELSE order.trigger_price[1]

\* The parameters place_order hands to the gateway for an order; the
\* instrument token is looked up from the symbol.
OrderParams(order) ==
    [symbol |-> order.symbol, order_type |-> order.order_type,
     quantity |-> order.quantity, side |-> order.side,
     price |-> IF order.order_type = "MARKET" THEN 0
               ELSE TriggerOrPrice(order),
     transaction_type |-> IF order.order_type = "MARKET" THEN "MKT"
                          ELSE "SL-M"]

\* execute_trade, called by c with the arguments in op[c].arg, builds its
\* three orders; placements[c] gets each order with the parameters
\* place_order would submit for it.
BuildBracket(c) ==
    /\ op[c].name = "execute_trade"
    /\ pc[c] = "call"
    /\ LET orders == BracketOrders(op[c].arg[1])
       IN  placements' = [placements EXCEPT ![c] =
               [k \in 1..3 |-> [leg |-> Legs[k], order |-> orders[k],
                                params |-> OrderParams(orders[k])]]]
    /\ pc' = [pc EXCEPT ![c] = "built"]
    /\ UNCHANGED <<ready, sleeping, op, returned, trade_lock, lock_waiters,
                   active_trades, active_orders, trade_locks, trade, task,
                   order_counter, polled, cleanup_runs, ops_started>>
    /\ UNCHANGED stream_vars

\* ------------------------------------------------- the live client, demo mode
\* Readings of time.time(), in half seconds.
ClockReadings == 0..MaxClock

\* `int(time.time())` of a reading: whole seconds.
WholeSeconds(at) == at \div 2

\* The id place_order returns in demo mode:
\* f"DEMO_{int(time.time())}_{order.symbol}".
DemoOrderId(at, symbol) == <<"DEMO", WholeSeconds(at), symbol>>

\* execute_trade of the live package in demo mode places the entry leg when
\* the clock reads `at` and suspends in the 0.5 s settle sleep.
DemoExecuteEntry(c) ==
    /\ op[c].name = "execute_trade"
    /\ pc[c] = "call"
    /\ \E at \in ClockReadings :
          /\ at + 1 <= MaxClock
          /\ placements' = [placements EXCEPT ![c] =
                 <<[leg |-> "MARKET", at |-> at,
                    order |-> <<DemoOrderId(at, op[c].arg[1])>>]>>]
    /\ pc' = [pc EXCEPT ![c] = "settle"]
    /\ UNCHANGED <<ready, sleeping, op, returned, trade_lock, lock_waiters,
                   active_trades, active_orders, trade_locks, trade, task,
                   order_counter, polled, cleanup_runs, ops_started>>
    /\ UNCHANGED stream_vars

\* The settle sleep is over, half a second or more after the entry leg was
\* placed: the stop-loss leg is placed, and the target leg right after it,
\* with no suspension in between; the clock does not go back.
DemoExecuteExits(c) ==
    /\ op[c].name = "execute_trade"
    /\ pc[c] = "settle"
    /\ \E sl_at \in ClockReadings, tgt_at \in ClockReadings :
          /\ sl_at >= placements[c][1].at + 1
          /\ tgt_at >= sl_at
          /\ placements' = [placements EXCEPT ![c] = @ \o
                 <<[leg |-> "STOP_LOSS", at |-> sl_at,
                    order |-> <<DemoOrderId(sl_at, op[c].arg[1])>>],
                   [leg |-> "TARGET", at |-> tgt_at,
                    order |-> <<DemoOrderId(tgt_at, op[c].arg[1])>>]>>]
    /\ pc' = [pc EXCEPT ![c] = "placed"]
    /\ UNCHANGED <<ready, sleeping, op, returned, trade_lock, lock_waiters,
                   active_trades, active_orders, trade_locks, trade, task,
                   order_counter, polled, cleanup_runs, ops_started>>
    /\ UNCHANGED stream_vars

\* ------------------------------------------------------------ specification
Init ==
    /\ ready = <<>>
    /\ sleeping = {}
    /\ pc = [c \in Callers |-> "idle"]
    /\ op = [c \in Callers |-> [name |-> "none", arg |-> <<>>]]
    /\ placements = [c \in Callers |-> <<>>]
    /\ returned = <<>>
    /\ trade_lock = <<>>
    /\ lock_waiters = <<>>
    /\ active_trades = {}
    /\ active_orders = {}
    /\ trade_locks = {}
    /\ trade = <<>>
    /\ task = <<>>
    /\ order_counter = OrderCounterStart
    /\ polled = <<>>
    /\ cleanup_runs = <<>>
    /\ ops_started = 0
    /\ stream_lock = <<>>
    /\ stream_waiters = <<>>
    /\ ltp_streams = <<>>
    /\ stream_task = <<>>

\* The event loop runs the handle at the head of its ready queue.
LoopStep ==
    \/ \E t \in TradeIds : MonitorIteration(t)
    \/ \E t \in TradeIds : MonitorCancelled(t)
    \/ \E t \in TradeIds : CleanupTradeResources(t)
    \/ \E c \in Callers : ExecuteWaitLock(c)
    \/ \E c \in Callers : ExecuteEntry(c)
    \/ \E c \in Callers : ExecuteExits(c)
    \/ \E c \in Callers : CancelTradeAwait(c)
    \/ \E c \in Callers : CancelTradeWaitLock(c)
    \/ \E c \in Callers : CancelTradeReturn(c)

\* What happens outside the loop's control: timers expire, callers get work.
Environment ==
    \/ \E h \in sleeping : TimerFire(h)
    \/ \E c \in Callers : Submit(c)
    \/ \E c \in Callers, t \in Created \cup {UnknownTradeId} : RequestCancel(c, t)

Next == LoopStep \/ Environment

Spec == Init /\ [][Next]_vars

\* The loop never stops running ready handles, and time passes.
FairSpec ==
    /\ Spec
    /\ WF_vars(LoopStep)
    /\ WF_vars(\E h \in sleeping : TimerFire(h))

\* The loop never stops running ready handles, and the sleep of every task
\* ends: no timer is put off for ever by the timers of the other tasks.
FairTimersSpec ==
    /\ Spec
    /\ WF_vars(LoopStep)
    /\ \A c \in Callers : WF_vars(TimerFire(CallerHandle(c)))
    /\ \A t \in TradeIds : WF_vars(TimerFire(MonitorHandle(t)))

\* ------------------------------------------------- trades and status queries
\* The loop also runs callers that ask for the status of a trade.
StatusNext ==
    \/ LoopStep
    \/ Environment
    \/ \E c \in Callers : GetTradeStatus(c)
    \/ \E c \in Callers, t \in Created \cup {UnknownTradeId} :
          RequestStatus(c, t)

StatusSpec == Init /\ [][StatusNext]_vars

\* ------------------------------------------------- the stream registry alone
\* The loop runs stream tasks and the callers' stream operations.
StreamLoopStep ==
    \/ \E k \in 1..MaxStreamOps : RunLtpStream(k)
    \/ \E c \in Callers : StreamWaitLock(c)
    \/ \E c \in Callers : StartLtpStream(c)
    \/ \E c \in Callers : StartLtpStreamInstall(c)
    \/ \E c \in Callers : StopLtpStream(c)
    \/ \E c \in Callers : StopLtpStreamDelete(c)
    \/ \E c \in Callers : StopAllWaitSnapshot(c)
    \/ \E c \in Callers : StopAllSnapshot(c)
    \/ \E c \in Callers : StopAllReturn(c)

\* Callers start, stop and stop all streams.
StreamEnvironment ==
    \/ \E c \in Callers, s \in Symbols :
          RequestStream(c, "start_ltp_stream_for_symbol", s)
    \/ \E c \in Callers, s \in Symbols :
          RequestStream(c, "stop_ltp_stream_for_symbol", s)
    \/ \E c \in Callers : RequestStopAll(c)

StreamNext == StreamLoopStep \/ StreamEnvironment

StreamSpec == Init /\ [][StreamNext]_vars

\* ------------------------------------------------- the trade registry alone
\* A caller task is scheduled and will call cancel_trade for an id whose
\* monitor is over: a repeated or a late call.
RequestCancelAgain(c, t) ==
    /\ pc[c] = "idle"
    /\ t \in Created
    /\ TaskDone(t)
    /\ op' = [op EXCEPT ![c] = [name |-> "cancel_trade", arg |-> <<t>>]]
    /\ pc' = [pc EXCEPT ![c] = "call"]
    /\ ready' = Append(ready, CallerHandle(c))
    /\ polled' = <<>>
    /\ returned' = <<>>
    /\ UNCHANGED <<trade_lock, lock_waiters, active_trades, task>>
    /\ UNCHANGED executor_side
    /\ UNCHANGED stream_vars

\* Some caller is inside the named operation.
InFlight(name) == \E c \in Callers : op[c].name = name /\ pc[c] # "idle"

\* The loop runs monitors, cleanups and the callers' trade operations.
RegistryLoopStep ==
    \/ \E t \in TradeIds : MonitorPoll(t, SampledReplies \cup {NoStatus})
    \/ \E t \in TradeIds : MonitorCancelled(t)
    \/ \E t \in TradeIds : CleanupTradeResources(t)
    \/ \E c \in Callers : ExecuteWaitLock(c)
    \/ \E c \in Callers : ExecuteEntry(c)
    \/ \E c \in Callers : ExecuteExits(c)
    \/ \E c \in Callers : CancelTradeAwait(c)
    \/ \E c \in Callers : CancelTradeWaitLock(c)
    \/ \E c \in Callers : CancelTradeReturn(c)
    \/ \E c \in Callers : AddWaitLock(c)
    \/ \E c \in Callers : AddActiveTrade(c)
    \/ \E c \in Callers : CancelAllWaitSnapshot(c)
    \/ \E c \in Callers : CancelAllSnapshot(c)
    \/ \E c \in Callers : CancelAllAwait(c)
    \/ \E c \in Callers : CancelAllWaitLock(c)
    \/ \E c \in Callers : CancelAllItemDone(c)
    \/ \E c \in Callers : CancelAllReturn(c)

\* Callers submit trades, register the trades whose monitor runs, cancel
\* them one by one or all at once; a registration and a bulk cancellation
\* do not overlap.
RegistryEnvironment ==
    \/ Environment
    \/ \E c \in Callers, t \in Created :
          /\ ~InFlight("cancel_trade")
          /\ RequestCancelAgain(c, t)
    \/ \E c \in Callers, t \in Created :
          /\ ~TaskDone(t)
          /\ t \notin active_trades
          /\ ~InFlight("add_active_trade")
          /\ ~InFlight("cancel_all_trades")
          /\ RequestAdd(c, t)
    \/ \E c \in Callers :
          /\ active_trades # {}
          /\ ~InFlight("add_active_trade")
          /\ RequestBulk(c, "cancel_all_trades")

RegistryNext == RegistryLoopStep \/ RegistryEnvironment

RegistrySpec == Init /\ [][RegistryNext]_vars

\* --------------------------------------- registry operations that overlap
\* The loop runs the trade operations and get_active_trades.
OverlapLoopStep ==
    \/ RegistryLoopStep
    \/ \E c \in Callers : ListWaitLock(c)
    \/ \E c \in Callers : GetActiveTrades(c)

\* Callers submit, register, cancel, cancel all and list trades in any
\* order: a registration may come while a bulk cancellation or a listing
\* is under way.
OverlapEnvironment ==
    \/ Environment
    \/ \E c \in Callers, t \in Created :
          /\ t \notin active_trades
          /\ RequestAdd(c, t)
    \/ \E c \in Callers : RequestBulk(c, "cancel_all_trades")
    \/ \E c \in Callers : RequestList(c)

OverlapNext == OverlapLoopStep \/ OverlapEnvironment

OverlapSpec == Init /\ [][OverlapNext]_vars

\* ------------------------------------------- status reports under contention
\* No caller task has been given work yet.
ReportInit ==
    /\ ready = <<>>
    /\ sleeping = {}
    /\ pc = [c \in ReportCallers |-> "idle"]
    /\ op = [c \in ReportCallers |-> [name |-> "none", arg |-> <<>>]]
    /\ placements = [c \in ReportCallers |-> <<>>]
    /\ returned = <<>>
    /\ trade_lock = <<>>
    /\ lock_waiters = <<>>
    /\ active_trades = {}
    /\ active_orders = {}
    /\ trade_locks = {}
    /\ trade = <<>>
    /\ task = <<>>
    /\ order_counter = OrderCounterStart
    /\ polled = <<>>
    /\ cleanup_runs = <<>>
    /\ ops_started = 0
    /\ stream_lock = <<>>
    /\ stream_waiters = <<>>
    /\ ltp_streams = <<>>
    /\ stream_task = <<>>

\* The loop runs monitors, cleanups, submissions, registrations,
\* cancellations and status reports.
ReportLoopStep ==
    \/ \E t \in TradeIds : MonitorPoll(t, SampledReplies)
    \/ \E t \in TradeIds : MonitorCancelled(t)
    \/ \E t \in TradeIds : CleanupTradeResources(t)
    \/ \E c \in ReportCallers : ExecuteWaitLock(c)
    \/ \E c \in ReportCallers : ExecuteEntry(c)
    \/ \E c \in ReportCallers : ExecuteExits(c)
    \/ \E c \in ReportCallers : CancelTradeAwait(c)
    \/ \E c \in ReportCallers : CancelTradeWaitLock(c)
    \/ \E c \in ReportCallers : CancelTradeReturn(c)
    \/ \E c \in ReportCallers : AddWaitLock(c)
    \/ \E c \in ReportCallers : AddActiveTrade(c)
    \/ \E c \in ReportCallers : OverallWaitCount(c)
    \/ \E c \in ReportCallers : OverallCountAndList(c)
    \/ \E c \in ReportCallers : OverallCountThenWait(c)
    \/ \E c \in ReportCallers : OverallList(c)

\* Timers expire; callers submit, register and cancel trades and ask for
\* the overall status, in any order.
ReportEnvironment ==
    \/ \E h \in sleeping : TimerFire(h)
    \/ \E c \in ReportCallers : Submit(c)
    \/ \E c \in ReportCallers, t \in Created : RequestCancel(c, t)
    \/ \E c \in ReportCallers, t \in Created :
          /\ t \notin active_trades
          /\ RequestAdd(c, t)
    \/ \E c \in ReportCallers : RequestOverall(c)

ReportNext == ReportLoopStep \/ ReportEnvironment

ReportSpec == ReportInit /\ [][ReportNext]_vars

\* ------------------------------------------------------- the whole manager
\* The loop runs every task of the manager, cleanup included.
ManagerLoopStep ==
    \/ \E t \in TradeIds : MonitorPoll(t, SampledReplies)
    \/ \E t \in TradeIds : MonitorCancelled(t)
    \/ \E t \in TradeIds : CleanupTradeResources(t)
    \/ \E c \in Callers : ExecuteWaitLock(c)
    \/ \E c \in Callers : ExecuteEntry(c)
    \/ \E c \in Callers : ExecuteExits(c)
    \/ \E c \in Callers : CancelTradeAwait(c)
    \/ \E c \in Callers : CancelTradeWaitLock(c)
    \/ \E c \in Callers : CancelTradeReturn(c)
    \/ \E c \in Callers : AddWaitLock(c)
    \/ \E c \in Callers : AddActiveTrade(c)
    \/ \E c \in Callers : CancelAllWaitSnapshot(c)
    \/ \E c \in Callers : CancelAllSnapshot(c)
    \/ \E c \in Callers : CancelAllAwait(c)
    \/ \E c \in Callers : CancelAllWaitLock(c)
    \/ \E c \in Callers : CancelAllItemDone(c)
    \/ \E c \in Callers : CancelAllReturn(c)
    \/ StreamLoopStep
    \/ \E c \in Callers : CleanupToStreams(c)

\* cleanup has been called: the process is being torn down.
CleanupCalled == \E c \in Callers : op[c].name = "cleanup"

\* Callers use the operations of the manager until one of them calls
\* cleanup, which is called once and after which nothing new is requested;
\* a registration and a bulk cancellation do not overlap.
ManagerEnvironment ==
    \/ \E h \in sleeping : TimerFire(h)
    \/ \E c \in Callers : ~CleanupCalled /\ Submit(c)
    \/ \E c \in Callers, t \in Created \cup {UnknownTradeId} :
          ~CleanupCalled /\ RequestCancel(c, t)
    \/ \E c \in Callers, t \in Created :
          /\ ~CleanupCalled
          /\ ~TaskDone(t)
          /\ t \notin active_trades
          /\ ~InFlight("add_active_trade")
          /\ ~InFlight("cancel_all_trades")
          /\ RequestAdd(c, t)
    \/ \E c \in Callers :
          /\ ~CleanupCalled
          /\ active_trades # {}
          /\ ~InFlight("add_active_trade")
          /\ RequestBulk(c, "cancel_all_trades")
    \/ \E c \in Callers :
          /\ ~CleanupCalled
          /\ ~InFlight("add_active_trade")
          /\ RequestBulk(c, "cleanup")
    \/ \E c \in Callers, s \in Symbols :
          ~CleanupCalled /\ RequestStream(c, "start_ltp_stream_for_symbol", s)
    \/ \E c \in Callers, s \in Symbols :
          ~CleanupCalled /\ RequestStream(c, "stop_ltp_stream_for_symbol", s)
    \/ \E c \in Callers : ~CleanupCalled /\ RequestStopAll(c)

ManagerNext == ManagerLoopStep \/ ManagerEnvironment

ManagerSpec == Init /\ [][ManagerNext]_vars

\* The loop never stops running ready handles, and the settle sleep of a
\* submission ends after its 0.5 s whatever the monitors' timers do.
FairManagerSpec ==
    /\ ManagerSpec
    /\ WF_vars(ManagerLoopStep)
    /\ WF_vars(\E c \in Callers : TimerFire(CallerHandle(c)))

\* ------------------------------------------------- bracket construction alone
\* Each caller is about to call execute_trade with arguments of its own.
OrderInit ==
    /\ ready = <<>>
    /\ sleeping = {}
    /\ pc = [c \in Callers |-> "call"]
    /\ op \in [Callers -> [name : {"execute_trade"},
                           arg : {<<in>> : in \in TradeInputs}]]
    /\ placements = [c \in Callers |-> <<>>]
    /\ returned = <<>>
    /\ trade_lock = <<>>
    /\ lock_waiters = <<>>
    /\ active_trades = {}
    /\ active_orders = {}
    /\ trade_locks = {}
    /\ trade = <<>>
    /\ task = <<>>
    /\ order_counter = OrderCounterStart
    /\ polled = <<>>
    /\ cleanup_runs = <<>>
    /\ ops_started = 0
    /\ stream_lock = <<>>
    /\ stream_waiters = <<>>
    /\ ltp_streams = <<>>
    /\ stream_task = <<>>

OrderNext == \E c \in Callers : BuildBracket(c)

OrderSpec == OrderInit /\ [][OrderNext]_vars

\* ------------------------------------------- submissions in demo mode alone
\* Each caller is about to call execute_trade for a symbol of its own.
DemoInit ==
    /\ ready = <<>>
    /\ sleeping = {}
    /\ pc = [c \in Callers |-> "call"]
    /\ op \in [Callers -> [name : {"execute_trade"},
                           arg : {<<s>> : s \in Symbols}]]
    /\ placements = [c \in Callers |-> <<>>]
    /\ returned = <<>>
    /\ trade_lock = <<>>
    /\ lock_waiters = <<>>
    /\ active_trades = {}
    /\ active_orders = {}
    /\ trade_locks = {}
    /\ trade = <<>>
    /\ task = <<>>
    /\ order_counter = OrderCounterStart
    /\ polled = <<>>
    /\ cleanup_runs = <<>>
    /\ ops_started = 0
    /\ stream_lock = <<>>
    /\ stream_waiters = <<>>
    /\ ltp_streams = <<>>
    /\ stream_task = <<>>

DemoNext ==
    \/ \E c \in Callers : DemoExecuteEntry(c)
    \/ \E c \in Callers : DemoExecuteExits(c)

DemoSpec == DemoInit /\ [][DemoNext]_vars

\* ------------------------------------------------------------------- claims
\* The monitor task of t is over and will not run again.
Terminated(t) ==
    /\ task[t].state = "finished"
    /\ MonitorHandle(t) \notin sleeping
    /\ \A i \in DOMAIN ready : ready[i] # MonitorHandle(t)

\* The poll iteration p called cancel_order exactly for leg `leg` of its trade.
CancelIssuedFor(p, leg) ==
    /\ Len(p.cancel) = 1
    /\ p.cancel[1].leg = leg
    /\ p.cancel[1].order = LegOrder(p.trade, leg)

\* C1: a poll iteration that reads both statuses, with the stop-loss leg
\* Terminal-Filled and the target leg Still-Live, cancels the target leg,
\* sets trade.active to false and ends the monitor; with the stop-loss leg
\* Still-Live and the target leg Terminal-Filled it cancels the stop-loss
\* leg, sets active to false and ends the monitor.
C1_OcoResolution ==
    \A i \in DOMAIN polled :
        LET p == polled[i] IN
        /\ (p.sl \in TerminalFilled /\ p.target \in StillLive)
              => /\ CancelIssuedFor(p, "TARGET")
                 /\ ~trade[p.trade].active
                 /\ Terminated(p.trade)
        /\ (p.target \in TerminalFilled /\ p.sl \in StillLive)
              => /\ CancelIssuedFor(p, "STOP_LOSS")
                 /\ ~trade[p.trade].active
                 /\ Terminated(p.trade)

\* C1 witness: an iteration just read a filled stop-loss and an open target,
\* and cancelled the target order of the trade.
C1_Witness ==
    /\ polled # <<>>
    /\ polled[1].sl = "FILLED"
    /\ polled[1].target = "OPEN"
    /\ CancelIssuedFor(polled[1], "TARGET")
    /\ ~trade[polled[1].trade].active

\* C2 as stated: when both exit legs are Terminal-Filled in one poll
\* iteration, the stop-loss branch resolves the trade and a cancel is issued
\* for the target leg.
C2_Original ==
    \A i \in DOMAIN polled :
        LET p == polled[i] IN
        (p.sl \in TerminalFilled /\ p.target \in TerminalFilled)
            => /\ p.winner = "STOP_LOSS"
               /\ CancelIssuedFor(p, "TARGET")

\* C2 amended: when both exit legs are Terminal-Filled in one poll
\* iteration, the stop-loss branch resolves the trade, and no cancel is
\* issued for either leg (a filled target is not Still-Live).
C2_TieBreak ==
    \A i \in DOMAIN polled :
        LET p == polled[i] IN
        (p.sl \in TerminalFilled /\ p.target \in TerminalFilled)
            => /\ p.winner = "STOP_LOSS"
               /\ p.cancel = <<>>
               /\ ~trade[p.trade].active
               /\ Terminated(p.trade)

\* C2 witness: an iteration just read both legs as filled and resolved.
C2_Witness ==
    /\ polled # <<>>
    /\ polled[1].sl = "COMPLETE"
    /\ polled[1].target = "EXECUTED"
    /\ polled[1].winner = "STOP_LOSS"
    /\ ~trade[polled[1].trade].active

\* C3 as stated: on every path that ends a started trade's monitoring
\* (stop-loss filled, target filled, cancelled through cancel_trade) the
\* active flag has gone from true to false.
C3_Original ==
    \A t \in Created : TaskDone(t) => ~trade[t].active

\* C3 amended: a trade starts active; the flag never goes back to true; it
\* goes to false only in the poll iteration that resolves the trade, so a
\* monitor that finished has cleared it, and a monitor that was cancelled
\* left it true.
C3_ActiveOnce ==
    [][\A t \in DOMAIN trade' :
          /\ t \notin DOMAIN trade => trade'[t].active
          /\ t \in DOMAIN trade =>
                /\ ~trade[t].active => ~trade'[t].active
                /\ (trade[t].active /\ ~trade'[t].active) =>
                      /\ polled' # <<>>
                      /\ polled'[1].trade = t
                      /\ polled'[1].winner \in {"STOP_LOSS", "TARGET"}
          /\ task'[t].state = "finished" => ~trade'[t].active
          /\ task'[t].state = "cancelled" => trade'[t].active
      ]_vars

\* C3 witness: the monitor of a trade was cancelled from outside, its
\* cleanup ran, and the trade is still flagged active.
C3_Witness ==
    \E t \in Created :
        /\ task[t].state = "cancelled"
        /\ cleanup_runs[t] = 1
        /\ trade[t].active

\* The result r is that of an execute_new_trade call.
IsExecute(r) == r.op = "execute_new_trade"

\* The step just taken started no monitor and touched no executor map.
NoMonitorStarted == UNCHANGED <<task, trade, active_orders, trade_locks>>

\* C4: when the gateway gives no order id for the entry leg, execute_trade
\* returns success = false, has attempted no other placement, starts no
\* monitor task and leaves active_orders and trade_locks as they were.
C4_EntryFailFast ==
    [][\A i \in DOMAIN returned' :
          LET r == returned'[i] IN
          (IsExecute(r) /\ r.placements[1].order = <<>>) =>
              /\ ~r.success
              /\ Len(r.placements) = 1
              /\ r.placements[1].leg = "MARKET"
              /\ NoMonitorStarted
      ]_vars

\* C4 witness: a submission just failed on its entry leg while an earlier
\* trade is being monitored.
C4_Witness ==
    /\ returned # <<>>
    /\ IsExecute(returned[1])
    /\ returned[1].placements[1].order = <<>>
    /\ active_orders # {}

\* C5: when the stop-loss placement fails, or the target placement fails
\* after the stop-loss was accepted, execute_trade returns success = false
\* naming the failed leg, places no further leg, starts no monitor, and
\* calls cancel_order for nothing; cancel_order is only ever called for an
\* exit leg of a monitored trade.
C5_LaterLegFailure ==
    [][/\ \A i \in DOMAIN returned' :
            LET r == returned'[i]
                n == Len(r.placements)
            IN
            (IsExecute(r) /\ n >= 2 /\ r.placements[1].order # <<>>) =>
              /\ r.placements[2].order = <<>> =>
                    /\ ~r.success
                    /\ r.message = "Failed to place stop loss order"
                    /\ n = 2
                    /\ NoMonitorStarted
                    /\ polled' = <<>>
              /\ IF n = 3 /\ r.placements[2].order # <<>>
                          /\ r.placements[3].order = <<>>
                 THEN /\ ~r.success
                      /\ r.message = "Failed to place target order"
                      /\ NoMonitorStarted
                      /\ polled' = <<>>
                 ELSE TRUE
       /\ \A j \in DOMAIN polled' :
            LET p == polled'[j] IN
            p.cancel # <<>> =>
                p.cancel[1].order \in {trade'[p.trade].stop_loss_order,
                                       trade'[p.trade].target_order}
      ]_vars

\* C5 witness: a submission just failed on its target leg, entry and
\* stop-loss having been accepted.
C5_Witness ==
    /\ returned # <<>>
    /\ returned[1].message = "Failed to place target order"
    /\ Len(returned[1].placements) = 3
    /\ returned[1].placements[1].order # <<>>
    /\ returned[1].placements[2].order # <<>>

\* The call r made exactly the three placements, in order, all accepted.
AllThreeAccepted(r) ==
    /\ Len(r.placements) = 3
    /\ \A k \in 1..3 : /\ r.placements[k].leg = Legs[k]
                       /\ r.placements[k].order # <<>>

\* C6: execute_trade returns success = true, with the trade id and the three
\* leg ids in placement order, exactly when all three placements were
\* accepted; that step starts one monitor task and registers it under the
\* returned id in active_orders, with a lock in trade_locks; a failed call
\* starts no monitor and adds no map entry.
C6_SuccessIffThreeLegs ==
    [][\A i \in DOMAIN returned' :
          LET r == returned'[i] IN
          IsExecute(r) =>
              /\ r.success <=> AllThreeAccepted(r)
              /\ r.success =>
                    /\ Len(r.trade_id) = 1
                    /\ r.trade_id[1] \notin DOMAIN task
                    /\ DOMAIN task' = DOMAIN task \cup {r.trade_id[1]}
                    /\ task'[r.trade_id[1]].state = "ready"
                    /\ Cardinality({j \in DOMAIN ready' :
                          ready'[j] = MonitorHandle(r.trade_id[1])}) = 1
                    /\ active_orders' = active_orders \cup {r.trade_id[1]}
                    /\ trade_locks' = trade_locks \cup {r.trade_id[1]}
                    /\ r.order_ids = <<r.placements[1].order[1],
                                       r.placements[2].order[1],
                                       r.placements[3].order[1]>>
              /\ ~r.success => /\ r.trade_id = <<>>
                               /\ NoMonitorStarted
      ]_vars

\* C6 witness: a submission just succeeded and its monitor is registered.
C6_Witness ==
    /\ returned # <<>>
    /\ IsExecute(returned[1])
    /\ returned[1].success
    /\ Len(returned[1].order_ids) = 3
    /\ returned[1].trade_id[1] \in active_orders \cap trade_locks

\* C7: a poll iteration in which a status call returned nothing calls
\* cancel_order for nothing, leaves trade.active true and suspends in the
\* sleep before polling again, whatever the other leg's status.
C7_TransientFault ==
    \A i \in DOMAIN polled :
        LET p == polled[i] IN
        (p.sl = NoStatus \/ p.target = NoStatus) =>
            /\ p.cancel = <<>>
            /\ p.winner = "none"
            /\ trade[p.trade].active
            /\ task[p.trade].state = "sleeping"
            /\ MonitorHandle(p.trade) \in sleeping

\* C7 witness: an iteration just got no stop-loss status while the target
\* status was filled, and the monitor sleeps.
C7_Witness ==
    /\ polled # <<>>
    /\ polled[1].sl = NoStatus
    /\ polled[1].target = "FILLED"
    /\ MonitorHandle(polled[1].trade) \in sleeping

\* The cleanup callback of t is queued on the loop, once.
CleanupScheduled(t) ==
    Cardinality({j \in DOMAIN ready : ready[j] = CleanupHandle(t)}) = 1

\* C8: when the monitor's cancel_order call for the loser fails, the trade
\* is resolved all the same: trade.active is false, the monitor task is
\* over and never polls or cancels again, and its cleanup callback is
\* scheduled as after a successful cancel.
C8_BestEffortCancel ==
    \A i \in DOMAIN polled :
        LET p == polled[i] IN
        (p.cancel # <<>> /\ ~p.cancel[1].ok) =>
            /\ ~trade[p.trade].active
            /\ Terminated(p.trade)
            /\ CleanupScheduled(p.trade)

\* C8 witness: an iteration's cancel of the stop-loss leg just failed.
C8_Witness ==
    /\ polled # <<>>
    /\ polled[1].cancel # <<>>
    /\ ~polled[1].cancel[1].ok
    /\ polled[1].cancel[1].leg = "STOP_LOSS"
    /\ ~trade[polled[1].trade].active

\* Every started monitor is over and its cleanup callback has run.
AllCyclesEnded ==
    \A t \in Created : TaskDone(t) /\ cleanup_runs[t] >= 1

\* C9: once the monitor task of a trade is over, finished by resolution or
\* cancelled, its id eventually is in neither active_orders nor trade_locks;
\* and whenever every started monitor has ended and been cleaned up, both
\* maps are empty.
C9_Reclamation ==
    /\ \A t \in TradeIds :
          [](t \in Created /\ TaskDone(t)
                => <>(t \notin active_orders /\ t \notin trade_locks))
    /\ [](AllCyclesEnded => active_orders = {} /\ trade_locks = {})

\* C9 witness: every submission the bound allows was made, one after the
\* other; each trade's monitor has ended, and both maps are empty.
C9_Witness ==
    /\ Cardinality(Created) = MaxOps
    /\ AllCyclesEnded
    /\ active_orders = {}
    /\ trade_locks = {}

\* C10 as stated: when cancel_trade(t) returns for a started trade t, the
\* monitor task of t is over and t has been removed from active_orders and
\* from trade_locks.
C10_CancelAwaitsCleanup ==
    \A i \in DOMAIN returned :
        LET r == returned[i] IN
        (r.op = "cancel_trade" /\ r.trade_id[1] \in Created) =>
            /\ TaskDone(r.trade_id[1])
            /\ r.trade_id[1] \notin active_orders
            /\ r.trade_id[1] \notin trade_locks

\* C12 as stated: when cancel_trade(t) returns true for a trade whose monitor
\* it cancelled, cancel_order has been called for both exit legs of t, which
\* were live: the monitor never resolved, so it cancelled neither.
C12_CancelReachesGateway ==
    \A i \in DOMAIN returned :
        LET r == returned[i] IN
        (r.op = "cancel_trade" /\ r.success /\ r.trade_id[1] \in Created
            /\ task[r.trade_id[1]].state = "cancelled") =>
            \A leg \in {"STOP_LOSS", "TARGET"} :
                \E j \in DOMAIN r.cancels :
                    <<r.cancels[j]>> = LegOrder(r.trade_id[1], leg)

\* C14 as stated: after execute_new_trade returned success = true, the
\* returned trade id is a key of TradeManager.active_trades.
C14_SuccessRegisters ==
    \A i \in DOMAIN returned :
        LET r == returned[i] IN
        (IsExecute(r) /\ r.success) => r.trade_id[1] \in active_trades

\* The accepted order ids among the placements ps, in placement order.
RECURSIVE AcceptedIds(_)
AcceptedIds(ps) ==
    IF ps = <<>> THEN <<>> ELSE Head(ps).order \o AcceptedIds(Tail(ps))

\* C18: at most one caller is inside execute_trade at a time, and it holds
\* trade_lock; the order ids a submission was given are consecutive and end
\* at the gateway's last id, so no placement of another submission fell
\* between them; when the call returns, trade_lock is free while the monitor
\* it started is still to run.
C18_SubmissionSerialized ==
    /\ [](\A c \in Callers :
            placements[c] # <<>> =>
                /\ trade_lock = <<c>>
                /\ pc[c] = "settle"
                /\ \A d \in Callers \ {c} : placements[d] = <<>>)
    /\ [][\A i \in DOMAIN returned' :
            LET r == returned'[i]
                ids == AcceptedIds(r.placements)
            IN
            IsExecute(r) =>
                /\ \A k \in DOMAIN ids :
                      ids[k] = order_counter' - Len(ids) + k
                /\ trade_lock' = <<>>
                /\ r.success => task'[r.trade_id[1]].state = "ready"
         ]_vars

\* C18 witness: one caller is inside execute_trade, in the settle sleep with
\* its entry leg placed, while another execute_new_trade caller is queued
\* for trade_lock and the monitor of an earlier trade is alive.
C18_Witness ==
    \E c \in Callers, d \in Callers :
        /\ pc[c] = "settle"
        /\ placements[c] # <<>>
        /\ pc[d] = "wait_lock"
        /\ op[d].name = "execute_new_trade"

\* The stream tasks of symbol s that are not done.
LiveStreams(s) ==
    {k \in DOMAIN stream_task :
        stream_task[k].symbol = s /\ ~StreamDone(k)}

\* C19: under every interleaving of start_ltp_stream_for_symbol,
\* stop_ltp_stream_for_symbol and stop_all_ltp_streams no symbol has two
\* stream tasks that are not done, and the one it has is the installed one;
\* when a task is created for a symbol, every earlier task of that symbol
\* is done: the old one was cancelled and awaited first.
C19_OneStreamPerSymbol ==
    /\ [](\A s \in Symbols :
            /\ Cardinality(LiveStreams(s)) <= 1
            /\ \A k \in LiveStreams(s) :
                  s \in DOMAIN ltp_streams /\ ltp_streams[s] = k)
    /\ [][Len(stream_task') > Len(stream_task) =>
            \A k \in DOMAIN stream_task :
                stream_task[k].symbol = stream_task'[Len(stream_task')].symbol
                    => StreamDone(k)
         ]_vars

\* C19 witness: a symbol's first stream task was cancelled by a second start
\* for the symbol, whose task is installed and not yet done.
C19_Witness ==
    \E s \in Symbols :
        /\ Len(stream_task) >= 2
        /\ stream_task[1].symbol = s
        /\ stream_task[1].state = "cancelled"
        /\ stream_task[2].symbol = s
        /\ ~StreamDone(2)
        /\ s \in DOMAIN ltp_streams
        /\ ltp_streams[s] = 2

\* The cancel_trade call of c is a repeated or an unknown-id call: its id is
\* not registered, and no monitor of that id is running.
RepeatedCancel(c) ==
    /\ op[c].name = "cancel_trade"
    /\ pc[c] # "idle"
    /\ op[c].arg[1] \notin active_trades
    /\ op[c].arg[1] \in Created => TaskDone(op[c].arg[1])

\* C11: cancel_trade is idempotent. Every cancel_trade call returns true with
\* its id absent from the registry, and the returning step changes no
\* Executor map; a call made for an id that is not registered and has no
\* running monitor (a second call on the same id, or a call on an unknown
\* id) changes neither the registry nor the Executor maps in any of its
\* steps.
C11_CancelIdempotent ==
    [][/\ \A i \in DOMAIN returned' :
            LET r == returned'[i] IN
            r.op = "cancel_trade" =>
                /\ r.success
                /\ r.trade_id[1] \notin active_trades'
                /\ UNCHANGED <<active_orders, trade_locks, trade, task>>
       /\ \A c \in Callers :
            (RepeatedCancel(c) /\ pc'[c] # pc[c]) =>
                /\ UNCHANGED <<active_trades, active_orders, trade_locks,
                               trade, task>>
                /\ pc'[c] \in {"wait_lock", "idle"}]_vars

\* C11 witness: cancel_trade has just returned true for a trade whose
\* monitor a cancellation ended and whose resources were reclaimed, after
\* the other caller's cancel_trade on the same id had returned.
C11_Witness ==
    \E c \in Callers, d \in Callers :
        /\ c # d
        /\ Len(returned) = 1
        /\ returned[1].caller = c
        /\ returned[1].op = "cancel_trade"
        /\ returned[1].success
        /\ returned[1].trade_id[1] \in Created
        /\ task[returned[1].trade_id[1]].state = "cancelled"
        /\ cleanup_runs[returned[1].trade_id[1]] = 1
        /\ op[d].name = "cancel_trade"
        /\ op[d].arg = returned[1].trade_id
        /\ pc[d] = "idle"

C20_ResolutionDropsRegistration ==
    \A t \in Created :
        (t \in DOMAIN task /\ task[t].state = "finished"
           /\ t \in DOMAIN cleanup_runs /\ cleanup_runs[t] >= 1)
          => t \notin active_trades

\* C15 as stated: when cleanup returns, every monitor started by
\* execute_new_trade is over and active_orders is empty, and every stream
\* task is over and ltp_streams is empty.
C15_CleanupStopsEverything ==
    \A i \in DOMAIN returned :
        returned[i].op = "cleanup" =>
            /\ \A t \in DOMAIN task : TaskDone(t)
            /\ active_orders = {}
            /\ \A k \in DOMAIN stream_task : StreamDone(k)
            /\ ltp_streams = <<>>

\* c is suspended in asyncio.sleep or in the await of another task.
Suspended(c) == pc[c] \in {"settle", "await_task", "await_stream"}

\* c waits in the acquire of one of the two manager locks.
WaitsForLock(c) ==
    \/ \E i \in DOMAIN lock_waiters : lock_waiters[i] = c
    \/ \E i \in DOMAIN stream_waiters : stream_waiters[i] = c

\* C16 as stated: a task suspended at a sleep or at the await of another
\* task holds neither trade_lock nor stream_lock.
C16_NoLockAcrossSuspension ==
    \A c \in Callers :
        Suspended(c) => trade_lock # <<c>> /\ stream_lock # <<c>>

\* C16, amended: trade_lock is held by a suspended task only in
\* execute_new_trade, across the settle sleep of execute_trade, and
\* stream_lock only across the await of a cancelled stream task in a start
\* or a stop of one symbol; a task awaiting a monitor task in cancel_trade,
\* cancel_all_trades or cleanup holds no lock, and neither lock is held
\* between two steps of the loop in any other place.
C16_LockHeldOnlyInSubmitAndStreamSwap ==
    \A c \in Callers :
        /\ trade_lock = <<c>> =>
              pc[c] = "settle" /\ op[c].name = "execute_new_trade"
        /\ stream_lock = <<c>> =>
              /\ pc[c] = "await_stream"
              /\ op[c].name \in {"start_ltp_stream_for_symbol",
                                 "stop_ltp_stream_for_symbol",
                                 "stop_all_ltp_streams", "cleanup"}
        /\ pc[c] = "await_task" => trade_lock # <<c>> /\ stream_lock # <<c>>

\* C16 witness: one caller sleeps in execute_trade holding trade_lock while
\* another, inside cancel_all_trades, awaits a monitor task holding nothing.
C16_Witness ==
    \E c \in Callers, d \in Callers :
        /\ pc[c] = "settle"
        /\ trade_lock = <<c>>
        /\ pc[d] = "await_task"
        /\ op[d].name = "cancel_all_trades"

\* C17: no task holds trade_lock and stream_lock at the same time, and a
\* task that holds one of them is not waiting to acquire either.
C17_LocksNeverNested ==
    \A c \in Callers :
        /\ ~(trade_lock = <<c>> /\ stream_lock = <<c>>)
        /\ (trade_lock = <<c>> \/ stream_lock = <<c>>) => ~WaitsForLock(c)

\* C17 witness: cleanup, which took trade_lock for a snapshot that held a
\* trade and again to remove it, now holds stream_lock while it awaits a
\* cancelled stream task; trade_lock is not held.
C17_Witness ==
    \E c \in Callers :
        /\ op[c].name = "cleanup"
        /\ op[c].snapshot # <<>>
        /\ pc[c] = "await_stream"
        /\ stream_lock = <<c>>
        /\ trade_lock = <<>>
        /\ active_trades = {}

\* The status the poll iteration p read for the leg that lost.
LoserStatus(p) == IF p.winner = "STOP_LOSS" THEN p.target ELSE p.sl

\* The leg that lost in the resolving poll iteration p.
LoserLeg(p) == IF p.winner = "STOP_LOSS" THEN "TARGET" ELSE "STOP_LOSS"

\* C25: a poll iteration that resolves the trade calls cancel_order if and
\* only if the status it read for the losing leg is Still-Live, and then
\* once, for the losing leg; with any other loser status the trade resolves
\* with no cancel_order call.
C25_CancelIffLoserLive ==
    \A i \in DOMAIN polled :
        LET p == polled[i] IN
        p.winner # "none" =>
            /\ Len(p.cancel) = 1 <=> LoserStatus(p) \in StillLive
            /\ Len(p.cancel) <= 1
            /\ Len(p.cancel) = 1 => CancelIssuedFor(p, LoserLeg(p))
            /\ task[p.trade].state = "finished"
            /\ ~trade[p.trade].active

\* C25 witness: the stop-loss leg filled while the target leg was REJECTED;
\* the trade resolved without a cancel_order call.
C25_Witness ==
    /\ Len(polled) = 1
    /\ polled[1].winner = "STOP_LOSS"
    /\ polled[1].target = "REJECTED"
    /\ polled[1].cancel = <<>>
    /\ task[polled[1].trade].state = "finished"

CleanupPending(t) ==
    Cardinality({j \in DOMAIN ready : ready[j] = CleanupHandle(t)})

\* C28: the cleanup callback of a started monitor never runs or is queued
\* while the monitor task is not done; once the task is done, by resolution
\* or by cancellation, the callback has run once or is queued once to run,
\* and never both, whatever cancel_trade calls come with or after it.
C28_CleanupExactlyOnce ==
    \A t \in DOMAIN task :
        cleanup_runs[t] + CleanupPending(t) = IF TaskDone(t) THEN 1 ELSE 0

\* C28 witness: cancel_trade has just returned for a trade that its monitor
\* had resolved before, and the cleanup callback has run once.
C28_Witness ==
    /\ Len(returned) = 1
    /\ returned[1].op = "cancel_trade"
    /\ returned[1].trade_id[1] \in DOMAIN task
    /\ task[returned[1].trade_id[1]].state = "finished"
    /\ cleanup_runs[returned[1].trade_id[1]] = 1
    /\ CleanupPending(returned[1].trade_id[1]) = 0

\* C27: the active flag of a trade changes only in a poll iteration of its
\* own monitor that resolves it, and only from true to false; a Trade is
\* built active, and no step of execute_trade, cancel_trade_orders,
\* _cleanup_trade_resources or of any TradeManager operation changes the
\* flag of any trade.
C27_MonitorSoleWriter ==
    [][/\ \A t \in DOMAIN trade :
            /\ t \in DOMAIN trade'
            /\ trade'[t].active # trade[t].active =>
                  /\ trade[t].active
                  /\ Len(polled') = 1
                  /\ polled'[1].trade = t
                  /\ polled'[1].winner # "none"
       /\ \A t \in DOMAIN trade' \ DOMAIN trade : trade'[t].active]_vars

\* C27 witness: cleanup has returned after cancelling a registered trade,
\* whose flag is still true after cancel_trade_orders and its cleanup
\* callback, while the other trade, resolved by its monitor, is inactive.
C27_Witness ==
    /\ Len(returned) = 1
    /\ returned[1].op = "cleanup"
    /\ \E t \in DOMAIN trade, u \in DOMAIN trade :
          /\ task[t].state = "cancelled"
          /\ cleanup_runs[t] = 1
          /\ trade[t].active
          /\ task[u].state = "finished"
          /\ cleanup_runs[u] = 1
          /\ ~trade[u].active

\* The placements ps were made in the order entry, stop-loss, target, each
\* one after the leg before it was accepted.
PlacedInOrder(ps) ==
    /\ Len(ps) \in 1..3
    /\ \A k \in DOMAIN ps : ps[k].leg = Legs[k]
    /\ \A k \in DOMAIN ps : k < Len(ps) => ps[k].order # <<>>
    /\ \A j \in DOMAIN ps, k \in DOMAIN ps :
          (j < k /\ ps[k].order # <<>>) => ps[j].order[1] < ps[k].order[1]

\* C24: within one trade the entry placement is made first and the caller
\* then sleeps in the settle delay with only that leg placed and accepted;
\* the stop-loss and the target placement are made after the sleep, in that
\* order, each only when the leg before it was accepted; and a monitor, the
\* only place that polls statuses, exists only for a trade whose three legs
\* were accepted, with order ids in placement order.
C24_PlacementOrder ==
    /\ [](/\ \A c \in Callers :
               placements[c] # <<>> =>
                  /\ Len(placements[c]) = 1
                  /\ placements[c][1].leg = "MARKET"
                  /\ placements[c][1].order # <<>>
                  /\ pc[c] = "settle"
          /\ \A i \in DOMAIN returned :
               IsExecute(returned[i]) => PlacedInOrder(returned[i].placements)
          /\ \A t \in DOMAIN task :
               /\ Len(trade[t].market_order) = 1
               /\ Len(trade[t].stop_loss_order) = 1
               /\ Len(trade[t].target_order) = 1
               /\ trade[t].market_order[1] < trade[t].stop_loss_order[1]
               /\ trade[t].stop_loss_order[1] < trade[t].target_order[1]
          /\ \A i \in DOMAIN polled : polled[i].trade \in DOMAIN task)
    /\ [][\A i \in DOMAIN returned' :
            LET r == returned'[i] IN
            (IsExecute(r) /\ Len(r.placements) >= 2) =>
                /\ pc[r.caller] = "settle"
                /\ placements[r.caller] = <<r.placements[1]>>
                /\ CallerHandle(r.caller) \notin sleeping]_vars

\* C24 witness: the second submission has returned with its three legs
\* accepted in order, after a settle sleep, and its monitor has not polled
\* yet.
C24_Witness ==
    /\ Len(returned) = 1
    /\ IsExecute(returned[1])
    /\ returned[1].success
    /\ Len(returned[1].placements) = 3
    /\ PlacedInOrder(returned[1].placements)
    /\ returned[1].trade_id = <<2>>
    /\ task[2].state = "ready"

\* C22: the stop-loss order of a Buy trade triggers at entry_price minus
\* stop_loss_points and its target order at entry_price plus target_points;
\* for a Sell trade the signs are the other way round; the same prices are
\* what place_order submits.
C22_ExitPrices ==
    \A c \in Callers :
        pc[c] = "built" =>
            LET in == op[c].arg[1]
                sl == placements[c][2]
                tgt == placements[c][3]
            IN  /\ in.side = "BUY" =>
                      /\ sl.order.trigger_price
                            = <<in.entry_price - in.stop_loss_points>>
                      /\ tgt.order.trigger_price
                            = <<in.entry_price + in.target_points>>
                /\ in.side = "SELL" =>
                      /\ sl.order.trigger_price
                            = <<in.entry_price + in.stop_loss_points>>
                      /\ tgt.order.trigger_price
                            = <<in.entry_price - in.target_points>>
                /\ <<sl.params.price>> = sl.order.trigger_price
                /\ <<tgt.params.price>> = tgt.order.trigger_price

\* C22 witness: Buy at 100 with 5 stop-loss points and 10 target points
\* gives 95 and 110, and a Sell with zero points exits at its entry price.
C22_Witness ==
    \E c \in Callers, d \in Callers :
        /\ pc[c] = "built"
        /\ op[c].arg[1].side = "BUY"
        /\ op[c].arg[1].entry_price = 100
        /\ op[c].arg[1].stop_loss_points = 5
        /\ op[c].arg[1].target_points = 10
        /\ placements[c][2].order.trigger_price = <<95>>
        /\ placements[c][3].order.trigger_price = <<110>>
        /\ pc[d] = "built"
        /\ op[d].arg[1].side = "SELL"
        /\ op[d].arg[1].stop_loss_points = 0
        /\ op[d].arg[1].target_points = 0
        /\ placements[d][2].order.trigger_price = <<op[d].arg[1].entry_price>>
        /\ placements[d][3].order.trigger_price = <<op[d].arg[1].entry_price>>

\* C23: the entry order of a bracket has the requested side, its stop-loss
\* and target orders have the other side, and the three have the requested
\* symbol and quantity, in the Order objects and in what place_order
\* submits.
C23_BracketSides ==
    \A c \in Callers :
        pc[c] = "built" =>
            LET in == op[c].arg[1] IN
            /\ Len(placements[c]) = 3
            /\ \A k \in 1..3 :
                  /\ placements[c][k].order.order_type = Legs[k]
                  /\ placements[c][k].order.symbol = in.symbol
                  /\ placements[c][k].order.quantity = in.quantity
                  /\ placements[c][k].order.side
                        = (IF k = 1 THEN in.side
                           ELSE CHOOSE x \in TradeSides : x # in.side)
                  /\ placements[c][k].params.symbol = in.symbol
                  /\ placements[c][k].params.quantity = in.quantity
                  /\ placements[c][k].params.side
                        = placements[c][k].order.side

\* C23 witness: one caller has built a Buy bracket whose exits sell, the
\* other a Sell bracket whose exits buy.
C23_Witness ==
    \E c \in Callers, d \in Callers :
        /\ pc[c] = "built"
        /\ placements[c][1].order.side = "BUY"
        /\ placements[c][2].order.side = "SELL"
        /\ placements[c][3].order.side = "SELL"
        /\ pc[d] = "built"
        /\ placements[d][1].order.side = "SELL"
        /\ placements[d][2].order.side = "BUY"
        /\ placements[d][3].order.side = "BUY"

\* What a caller that iterates the result it holds gets now: the elements
\* of a list, or the current values of the dictionary behind a view.
Iterated(c) ==
    IF op[c].result.kind = "view" THEN active_trades
    ELSE {op[c].result.items[i] : i \in DOMAIN op[c].result.items}

\* Caller c holds a result of get_active_trades.
HoldsList(c) == op[c].name = "get_active_trades" /\ pc[c] = "idle"

\* C21: the list get_active_trades returns holds the trades registered when
\* it was built, and as long as the caller keeps it no step of
\* add_active_trade, remove_active_trade, cancel_trade, cancel_all_trades
\* or of anything else changes what iterating it yields.
C21_SnapshotCopy ==
    [][\A c \in Callers :
          /\ (~HoldsList(c) /\ HoldsList(c)') =>
                 /\ Iterated(c)' = active_trades
                 /\ Len(op[c].result.items') = Cardinality(active_trades)
                 /\ active_trades' = active_trades
          /\ (HoldsList(c) /\ HoldsList(c)') =>
                 Iterated(c)' = Iterated(c)]_vars

\* C21 witness: a caller holds a list with a trade that has since been
\* removed from the registry and without a trade that has since been
\* added to it.
C21_Witness ==
    \E c \in Callers :
        /\ HoldsList(c)
        /\ Iterated(c) \ active_trades # {}
        /\ active_trades \ Iterated(c) # {}

\* The ids cancel_all_trades snapshotted for caller c.
SnapshotIds(c) == {op[c].snapshot[i] : i \in DOMAIN op[c].snapshot}

\* Caller c is in the loop of cancel_all_trades, after its snapshot.
InCancelAllLoop(c) ==
    /\ op[c].name = "cancel_all_trades"
    /\ pc[c] \in {"next_item", "await_task", "wait_lock"}

\* C29: cancel_all_trades holds trade_lock only in its snapshot step; the
\* snapshot lists the registered ids, each once; in its loop the caller
\* does not hold the lock, and a step of the loop cancels the monitor and
\* removes the registration of the snapshot's next id only, the call
\* returning when no id is left, so that a trade outside the snapshot keeps
\* both through every step of the call.
C29_CancelAllSnapshotScope ==
    /\ [](\A c \in Callers : InCancelAllLoop(c) => trade_lock # <<c>>)
    /\ [][\A c \in Callers :
             /\ (op[c].name = "cancel_all_trades"
                 /\ pc[c] \in {"call", "wait_snapshot"}
                 /\ pc[c]' = "next_item") =>
                    /\ SnapshotIds(c)' = active_trades
                    /\ Len(op[c].snapshot') = Cardinality(active_trades)
                    /\ op[c].arg' = op[c].snapshot'
                    /\ active_trades' = active_trades
                    /\ task' = task
                    /\ trade_lock' = <<>>
             /\ (InCancelAllLoop(c) /\ Running(CallerHandle(c))
                 /\ (pc[c]' # pc[c] \/ op[c]' # op[c])) =>
                    /\ op[c].name' = "cancel_all_trades"
                    /\ op[c].snapshot' = op[c].snapshot
                    /\ \A t \in TradeIds \ SnapshotIds(c) :
                          /\ t \in active_trades' <=> t \in active_trades
                          /\ t \in DOMAIN task => task[t]' = task[t]
                    /\ \A t \in SnapshotIds(c) :
                          (t \in DOMAIN task /\ task[t]' # task[t]) =>
                              /\ op[c].arg # <<>>
                              /\ t = Head(op[c].arg)
                    /\ (active_trades' # active_trades
                        \/ op[c].arg' # op[c].arg) =>
                          /\ op[c].arg # <<>>
                          /\ active_trades'
                                = active_trades \ {Head(op[c].arg)}
                          /\ op[c].arg' = Tail(op[c].arg)
                    /\ pc[c]' = "idle" => op[c].arg = <<>>]_vars

\* C29 witness: cancel_all_trades has returned after cancelling the trade
\* it snapshotted, and a trade registered during the call is still in the
\* registry with its monitor running.
C29_Witness ==
    \E c \in Callers, t \in active_trades :
        /\ returned # <<>>
        /\ returned[1].caller = c
        /\ returned[1].op = "cancel_all_trades"
        /\ returned[1].trade_id # <<>>
        /\ \A i \in DOMAIN returned[1].trade_id :
              /\ returned[1].trade_id[i] # t
              /\ task[returned[1].trade_id[i]].state = "cancelled"
        /\ ~TaskDone(t)
        /\ trade_lock = <<>>

\* The handle of the monitor of t is scheduled to run.
MonitorScheduled(t) == \E i \in DOMAIN ready : ready[i] = MonitorHandle(t)

\* C31: an iteration of the monitor asks for the stop-loss status first and
\* the target status second; an iteration that does not resolve the trade
\* leaves the monitor suspended in asyncio.sleep and off the ready queue, and
\* an iteration is only run by a monitor that was scheduled again after its
\* sleep, so no two iterations follow each other without a suspension.
C31_PollOrderAndCadence ==
    /\ [](\A t \in DOMAIN task :
            task[t].state = "sleeping" =>
                /\ MonitorHandle(t) \in sleeping
                /\ ~MonitorScheduled(t))
    /\ [][\A i \in DOMAIN polled' :
             LET p == polled'[i] IN
             /\ Len(p.calls) >= 2
             /\ p.calls[1] = [call |-> "get_order_status",
                              order |-> trade[p.trade].stop_loss_order]
             /\ p.calls[2] = [call |-> "get_order_status",
                              order |-> trade[p.trade].target_order]
             /\ task[p.trade].state = "ready"
             /\ Running(MonitorHandle(p.trade))
             /\ p.winner = "none" =>
                   /\ task'[p.trade].state = "sleeping"
                   /\ MonitorHandle(p.trade) \in sleeping'
                   /\ \A j \in DOMAIN ready' :
                         ready'[j] # MonitorHandle(p.trade)]_vars

\* C31 witness: an iteration whose stop-loss status call failed, while the
\* target leg was reported filled, has just put its monitor to sleep.
C31_Witness ==
    /\ polled # <<>>
    /\ polled[1].sl = NoStatus
    /\ polled[1].target \in TerminalFilled
    /\ polled[1].winner = "none"
    /\ task[polled[1].trade].state = "sleeping"
    /\ MonitorHandle(polled[1].trade) \in sleeping

\* The cancel_order calls among the gateway calls of poll record p.
CancelCallsOf(p) ==
    {i \in DOMAIN p.calls : p.calls[i].call = "cancel_order"}

\* C34: an iteration makes at most one cancel_order call, for the order of
\* an exit leg whose status in that iteration was not Terminal-Filled and
\* never for the entry order; the iteration that makes it ends the monitor,
\* and a monitor that has ended runs no further iteration, so a monitor
\* makes at most one cancel call in its life and never one for each exit.
C34_AtMostOneCancelOfLoser ==
    [][/\ \A i \in DOMAIN polled' :
             LET p == polled'[i]
                 t == p.trade
             IN  /\ ~TaskDone(t)
                 /\ Cardinality(CancelCallsOf(p)) <= 1
                 /\ \A k \in CancelCallsOf(p) :
                       /\ p.calls[k].order # trade[t].market_order
                       /\ \/ /\ p.calls[k].order = trade[t].stop_loss_order
                             /\ p.sl \notin TerminalFilled
                             /\ p.target \in TerminalFilled
                          \/ /\ p.calls[k].order = trade[t].target_order
                             /\ p.target \notin TerminalFilled
                             /\ p.sl \in TerminalFilled
                       /\ task'[t].state = "finished"
       /\ \A t \in DOMAIN task : TaskDone(t) => task'[t] = task[t]]_vars

\* C34 witness: the target leg filled while the stop-loss leg was open, the
\* iteration cancelled the stop-loss order, and the monitor has ended.
C34_Witness ==
    /\ polled # <<>>
    /\ polled[1].sl = "OPEN"
    /\ polled[1].target = "FILLED"
    /\ Cardinality(CancelCallsOf(polled[1])) = 1
    /\ polled[1].calls[3].order = trade[polled[1].trade].stop_loss_order
    /\ task[polled[1].trade].state = "finished"

\* C36: when cancel_trade(t) returns for a started trade, the monitor task
\* of t is done and its handle is neither scheduled nor waiting on a timer;
\* a monitor task that is done stays done and runs no iteration, so no
\* status poll and no leg cancel of t is made after the return.
C36_NoGatewayCallAfterCancel ==
    /\ [](\A i \in DOMAIN returned :
            (returned[i].op = "cancel_trade"
                /\ returned[i].trade_id[1] \in Created) =>
                /\ TaskDone(returned[i].trade_id[1])
                /\ ~MonitorScheduled(returned[i].trade_id[1])
                /\ MonitorHandle(returned[i].trade_id[1]) \notin sleeping)
    /\ [][\A t \in DOMAIN task :
             TaskDone(t) =>
                /\ task'[t].state = task[t].state
                /\ \A i \in DOMAIN polled' : polled'[i].trade # t
                /\ MonitorHandle(t) \notin sleeping'
                /\ \A j \in DOMAIN ready' : ready'[j] # MonitorHandle(t)]_vars

\* C36 witness: cancel_trade has just returned true for a trade that was
\* still active, its monitor having been cancelled between two polls.
C36_Witness ==
    /\ returned # <<>>
    /\ returned[1].op = "cancel_trade"
    /\ returned[1].success
    /\ returned[1].trade_id[1] \in Created
    /\ trade[returned[1].trade_id[1]].active
    /\ task[returned[1].trade_id[1]].state = "cancelled"

\* C38: whenever the loop is between two steps, active_orders and
\* trade_locks have the same keys, and every key is the id of a trade that
\* was built with the order ids of its three placed legs.
C38_ExecutorMapsAgree ==
    /\ active_orders = trade_locks
    /\ \A t \in active_orders :
          /\ t \in Created
          /\ t \in DOMAIN task
          /\ \A leg \in {"MARKET", "STOP_LOSS", "TARGET"} :
                Len(LegOrder(t, leg)) = 1

\* C38 witness: one trade has been cleaned out of both maps after its
\* monitor resolved it, while a later trade, its monitor asleep between two
\* polls, is in both.
C38_Witness ==
    \E t \in Created, u \in Created :
        /\ task[t].state = "finished"
        /\ cleanup_runs[t] = 1
        /\ t \notin active_orders
        /\ t \notin trade_locks
        /\ task[u].state = "sleeping"
        /\ u \in active_orders
        /\ u \in trade_locks

\* C37 as stated: get_trade_status returns None exactly when the id is not
\* in active_orders, and when it reports an active, monitored trade, the
\* trade's active flag is true and its monitor task is not done.
C37_StatusAgreesWithTrade ==
    \A i \in DOMAIN returned :
        LET r == returned[i] IN
        r.op = "get_trade_status" =>
            /\ r.result = <<>> <=> r.trade_id[1] \notin active_orders
            /\ (r.result # <<>> /\ r.result[1].active
                    /\ r.result[1].status = "MONITORING") =>
                      /\ r.trade_id[1] \in Created
                      /\ trade[r.trade_id[1]].active
                      /\ ~TaskDone(r.trade_id[1])

\* C33 as stated: in every report get_overall_status returns,
\* total_active_trades is the number of entries of its trades list.
C33_ReportConsistent ==
    \A i \in DOMAIN returned :
        returned[i].op = "get_overall_status" =>
            returned[i].result.total_active_trades
                = Len(returned[i].result.trades)

\* The caller that holds a manager lock, or is first in line for a free
\* one, can go on without any lock: it is scheduled, asleep on a timer, or
\* awaits a task that is itself scheduled or asleep on a timer.
CanProceed(c) ==
    \/ \E i \in DOMAIN ready : ready[i] = CallerHandle(c)
    \/ CallerHandle(c) \in sleeping
    \/ /\ pc[c] \in {"await_task", "await_stream"}
       /\ ready # <<>> \/ sleeping # {}

FilledReported(t) ==
    \A i \in DOMAIN polled' :
        polled'[i].trade = t =>
            /\ polled'[i].sl # NoStatus
            /\ polled'[i].target # NoStatus
            /\ \/ polled'[i].sl \in TerminalFilled
               \/ polled'[i].target \in TerminalFilled

\* The trade t is resolved and reclaimed.
ResolvedAndReclaimed(t) ==
    /\ t \in Created
    /\ ~trade[t].active
    /\ task[t].state = "finished"
    /\ t \notin active_orders
    /\ t \notin trade_locks

\* C35: if from some point on every iteration of the monitor of a trade
\* gets both statuses with an exit leg Terminal-Filled, and the monitor is
\* never cancelled, then, the loop and the timers being fair, the trade
\* eventually is inactive, its monitor task finished, and its id in neither
\* active_orders nor trade_locks.
C35_ResolutionLiveness ==
    \A t \in TradeIds :
        (/\ <>[][FilledReported(t)]_vars
         /\ [](t \in DOMAIN task => ~task[t].must_cancel))
            => [](t \in Created => <>ResolvedAndReclaimed(t))

\* C35 witness: the only trade, whose monitor was not cancelled, has been
\* resolved by its monitor, and its cleanup has run.
C35_Witness ==
    \E t \in Created :
        /\ ResolvedAndReclaimed(t)
        /\ ~task[t].must_cancel
        /\ cleanup_runs[t] = 1
        /\ Cardinality(Created) = 1

\* C39 as stated, for the demo mode of the live client: the three order
\* ids of a trade whose three legs were placed are pairwise distinct.
C39_LegIdsDistinct ==
    \A c \in Callers :
        pc[c] = "placed" =>
            /\ placements[c][1].order # placements[c][2].order
            /\ placements[c][1].order # placements[c][3].order
            /\ placements[c][2].order # placements[c][3].order

====
